---- MODULE Spec2Model ----
(***************************************************************************)
(* A model of plasmapy/physics/transport.py: the classical transport       *)
(* orchestrator classical_transport, the Z-table lookup check_Z and the    *)
(* nondimensional coefficient evaluators of the Spitzer-Harm, Braginskii   *)
(* and Ji-Held models.                                                     *)
(*                                                                         *)
(* Numbers.  The evaluators compute with floating point numbers; the model *)
(* computes with exact rationals n/d in lowest terms.  A factor pi is kept *)
(* as an exponent e, so a scalar is (n/d) * pi^e.  The Ji-Held fits use    *)
(* fractional powers and sqrt(2), which no rational represents: a Ji-Held  *)
(* component that is not a table literal is kept as the closed form that   *)
(* computes it, a term t = (name of the closed form, table row, Z, r),     *)
(* scaled by n/d.  Two scalars with equal fields are equal numbers.        *)
(***************************************************************************)
EXTENDS Integers, Sequences, FiniteSets, TLC

VARIABLES
    \* ---- one call of classical_transport ----
    pc,                 \* position of the call in classical_transport
    coeffs_arg,         \* the caller's list as it was when the call was made
    coeffs,             \* the caller's list object (the code writes into it)
    model,              \* local `model`
    field_orientation,  \* local `field_orientation`
    ion_particle,       \* argument `ion_particle`
    Z,                  \* local `Z` (None until resolved)
    coulomb_log_ei,     \* local `coulomb_log_ei`
    coulomb_log_ii,     \* local `coulomb_log_ii`
    hall_e,             \* local `hall_e`
    hall_i,             \* local `hall_i`
    mu,                 \* local `mu`
    theta,              \* local `theta`
    transport_coeffs,   \* local list `transport_coeffs`
    calls,              \* the collaborators and evaluators invoked so far, in order
    warned,             \* the PhysicsWarnings emitted so far, in order
    outcome,            \* how the call ended: "" while running, "return" or the exception
    kwargs,             \* the optional arguments as the caller passed them
    \* ---- one direct call of a nondimensional dispatcher, and of check_Z ----
    ev_args,            \* arguments of the dispatcher call
    ev_res,             \* its result; ev_done says whether it has been computed
    ev_done,
    zc_args,            \* arguments of the check_Z call
    zc_res,             \* its result; zc_done says whether it has been computed
    zc_done,
    \* ---- one direct call of Coulomb_logarithm ----
    cl_args,            \* arguments T, n_e, particles, V of the call
    cl_res,             \* its result; cl_done says whether it has been computed
    cl_done

vars == <<pc, coeffs_arg, coeffs, model, field_orientation, ion_particle, Z,
          coulomb_log_ei, coulomb_log_ii, hall_e, hall_i, mu, theta,
          transport_coeffs, calls, warned, outcome, kwargs,
          ev_args, ev_res, ev_done, zc_args, zc_res, zc_done,
          cl_args, cl_res, cl_done>>

ct_vars == <<pc, coeffs_arg, coeffs, model, field_orientation, ion_particle, Z,
             coulomb_log_ei, coulomb_log_ii, hall_e, hall_i, mu, theta,
             transport_coeffs, calls, warned, outcome, kwargs>>

ev_vars == <<ev_args, ev_res, ev_done, zc_args, zc_res, zc_done,
            cl_args, cl_res, cl_done>>

(***************************************************************************)
(* Bounds of the model.                                                    *)
(***************************************************************************)
\* longest request list `coeffs` of a modelled call
MaxCoeffs == 2
\* largest Hall parameter of a modelled evaluator call (Hall parameters 0..MaxHall)
MaxHall == 2

(***************************************************************************)
(* Charge states.  Z is an integer or np.inf; an entry of an allowed_Z     *)
(* list is an integer, np.inf or the string 'arbitrary'.  Python's == is   *)
(* False between a number and a string, which the tagged values keep.      *)
(***************************************************************************)
Num(n) == [t |-> "num", v |-> n]
np_inf == [t |-> "inf", v |-> 0]
arbitrary == [t |-> "str", v |-> 0]
\* float nan (inf * 0), and Python's None
np_nan == [t |-> "nan", v |-> 0]
NoneV == [t |-> "None", v |-> 0]

(***************************************************************************)
(* Exact arithmetic.                                                       *)
(***************************************************************************)
Abs(x) == IF x < 0 THEN -x ELSE x

RECURSIVE GCD(_, _)
GCD(a, b) == IF b = 0 THEN a ELSE GCD(b, a % b)

\* no closed form: the scalar is the plain number (n/d) * pi^e
NoTerm == [f |-> "", Z_idx |-> 0, Z |-> Num(0), r |-> Num(0),
           mu |-> Num(0), theta |-> Num(0)]

\* the rational n/d, in lowest terms with d > 0
Q(n, d) ==
    LET g == GCD(Abs(n), Abs(d))
        s == IF d < 0 THEN -1 ELSE 1
    IN  [n |-> (s * n) \div g, d |-> (s * d) \div g, e |-> 0, t |-> NoTerm]

\* a decimal literal of the source: Dec(37703, 10000) is 3.7703
Dec(m, p) == Q(m, p)

\* np.pi
np_pi == [n |-> 1, d |-> 1, e |-> 1, t |-> NoTerm]

\* the closed form f of the Ji-Held electron fits at table row Z_idx, charge zz and
\* argument r
Term(f, Z_idx, zz, r) ==
    [n |-> 1, d |-> 1, e |-> 0,
     t |-> [f |-> f, Z_idx |-> Z_idx, Z |-> zz, r |-> r,
            mu |-> Num(0), theta |-> Num(0)]]

\* the closed form f of the Ji-Held ion fits at charge zz, argument r, mass ratio m
\* and temperature ratio th
TermI(f, zz, r, m, th) ==
    [n |-> 1, d |-> 1, e |-> 0,
     t |-> [f |-> f, Z_idx |-> 0, Z |-> zz, r |-> r, mu |-> m, theta |-> th]]

RMul(a, b) ==
    LET g1 == GCD(Abs(a.n), b.d)
        g2 == GCD(Abs(b.n), a.d)
        q == Q((a.n \div g1) * (b.n \div g2), (a.d \div g2) * (b.d \div g1))
    IN  [q EXCEPT !.e = a.e + b.e,
                  !.t = IF a.t = NoTerm THEN b.t ELSE a.t]

RInv(a) == [Q(a.d, a.n) EXCEPT !.e = -a.e, !.t = a.t]

RDiv(a, b) == RMul(a, RInv(b))

RAdd(a, b) ==
    LET g == GCD(a.d, b.d)
    IN  [Q(a.n * (b.d \div g) + b.n * (a.d \div g), (a.d \div g) * b.d)
            EXCEPT !.e = IF a.n = 0 THEN b.e ELSE a.e,
                   !.t = IF a.n = 0 THEN b.t ELSE NoTerm]

RNeg(a) == [a EXCEPT !.n = -a.n]

RSub(a, b) == RAdd(a, RNeg(b))

RECURSIVE IPow(_, _)
IPow(x, k) == IF k = 0 THEN 1 ELSE x * IPow(x, k - 1)

\* an integer as a scalar
I(n) == Q(n, 1)

\* A Hall parameter inside the guard np.isclose(hall, 0) of the viscosities and
\* not 0: the float v * 1e-9, v a small non-zero integer.
NearZero(v) == [t |-> "near-zero", v |-> v]
\* the factor 1e-9 of a scalar
NearZeroUnit == [NoTerm EXCEPT !.f = "1e-9"]
\* 2 * hall
TwiceHall(hall) == [hall EXCEPT !.v = 2 * @]
\* (every power of a near-zero Hall parameter taken for 0)
HPow_flushed(hall, k) ==
    IF hall.t = "num" THEN I(IPow(hall.v, k)) ELSE I(0)
\* hall ** k as a float in the sums of the viscosity evaluators.  Of a near-zero
\* Hall parameter the first power is v * 1e-9; the evaluators add the higher
\* powers (1e-18 and below) to terms of the order of 1, or hall ** 3 to a
\* multiple of hall, and the float sum is the larger term unchanged.
HPow(hall, k) ==
    IF hall.t = "num" THEN I(IPow(hall.v, k))
    ELSE IF k = 1 THEN [I(hall.v) EXCEPT !.t = NearZeroUnit]
    ELSE I(0)

(***************************************************************************)
(* Values returned by an evaluator: a Python float ("scalar"), a numpy     *)
(* array ("array"), the int placeholder 1 ("int") or None (the function    *)
(* fell off its end).  exc names the exception raised, "" when none.       *)
(***************************************************************************)
Scalar(x) == [shape |-> "scalar", v |-> <<x>>]
Array(xs) == [shape |-> "array", v |-> xs]
Placeholder == [shape |-> "int", v |-> <<I(1)>>]
None == [shape |-> "None", v |-> <<>>]

Ret(val) == [exc |-> "", val |-> val]
Raise(e) == [exc |-> e, val |-> None]

(***************************************************************************)
(* check_Z                                                                 *)
(***************************************************************************)
\* np.nan, the index check_Z starts from (no position of a list is negative)
nan == -1

\* the index (from 0) a loop `for idx, x in enumerate(xs): if x == y: found = idx`
\* leaves in `found`: the last position holding y, nan when there is none
LastIndexOf(xs, y) ==
    LET S == {i \in 1..Len(xs) : xs[i] = y}
    IN  IF S = {} THEN nan
        ELSE (CHOOSE i \in S : \A j \in S : j <= i) - 1

\* (the first row handed out for a Z that is not listed, nothing raised)
check_Z_first_row_default(allowed_Z, zz) ==
    LET the_arbitrary_idx == LastIndexOf(allowed_Z, arbitrary)
        arbitrary_Z_allowed == the_arbitrary_idx # nan
        Z_idx == LastIndexOf(allowed_Z, zz)
    IN  IF Z_idx = nan
            THEN [raised |-> FALSE,
                  Z_idx |-> IF arbitrary_Z_allowed THEN the_arbitrary_idx ELSE 0]
        ELSE [raised |-> FALSE, Z_idx |-> Z_idx]

\* (the arbitrary-Z row preferred whenever the list has one)
check_Z_arbitrary_first(allowed_Z, zz) ==
    LET the_arbitrary_idx == LastIndexOf(allowed_Z, arbitrary)
        arbitrary_Z_allowed == the_arbitrary_idx # nan
        Z_idx == LastIndexOf(allowed_Z, zz)
    IN  IF arbitrary_Z_allowed
            THEN [raised |-> FALSE, Z_idx |-> the_arbitrary_idx]
        ELSE IF Z_idx = nan
            THEN [raised |-> TRUE, Z_idx |-> nan]
        ELSE [raised |-> FALSE, Z_idx |-> Z_idx]

check_Z(allowed_Z, zz) ==
    LET the_arbitrary_idx == LastIndexOf(allowed_Z, arbitrary)
        arbitrary_Z_allowed == the_arbitrary_idx # nan
        Z_idx == LastIndexOf(allowed_Z, zz)
    IN  IF Z_idx = nan /\ ~arbitrary_Z_allowed
            THEN [raised |-> TRUE, Z_idx |-> nan]
        ELSE IF Z_idx = nan
            THEN [raised |-> FALSE, Z_idx |-> the_arbitrary_idx]
        ELSE [raised |-> FALSE, Z_idx |-> Z_idx]

\* table[Z_idx] of the source (Python indexes from 0)
Row(table, Z_idx) == table[Z_idx + 1]


(***************************************************************************)
(* Spitzer-Harm                                                            *)
(***************************************************************************)
PhysicsErrorZ == "PhysicsError: not an available Z value"

get_spitzer_harm_coeffs(zz) ==
    LET allowed_Z == <<Num(1), Num(2), Num(4), Num(16), np_inf>>
        c == check_Z(allowed_Z, zz)
        gamma_E == <<Dec(5816, 10000), Dec(6833, 10000), Dec(7849, 10000), Dec(9225, 10000), Dec(10000, 10000)>>
        gamma_T == <<Dec(2727, 10000), Dec(4137, 10000), Dec(5714, 10000), Dec(8279, 10000), Dec(10000, 10000)>>
        delta_E == <<Dec(4652, 10000), Dec(5787, 10000), Dec(7043, 10000), Dec(8870, 10000), Dec(10000, 10000)>>
        delta_T == <<Dec(2252, 10000), Dec(3563, 10000), Dec(5133, 10000), Dec(7907, 10000), Dec(10000, 10000)>>
    IN  IF c.raised
            THEN [raised |-> TRUE, gamma_E |-> I(0), gamma_T |-> I(0),
                  delta_E |-> I(0), delta_T |-> I(0)]
        ELSE [raised |-> FALSE,
              gamma_E |-> Row(gamma_E, c.Z_idx), gamma_T |-> Row(gamma_T, c.Z_idx),
              delta_E |-> Row(delta_E, c.Z_idx), delta_T |-> Row(delta_T, c.Z_idx)]

nondim_tc_e_spitzer(zz) ==
    LET c == get_spitzer_harm_coeffs(zz)
        kappa == RMul(RMul(RDiv(I(64), np_pi), c.delta_T),
                      RSub(Q(5, 3),
                           RDiv(RMul(c.gamma_T, c.delta_E),
                                RMul(c.delta_T, c.gamma_E))))
    IN  IF c.raised THEN Raise(PhysicsErrorZ) ELSE Ret(Scalar(kappa))

nondim_resist_spitzer(zz) ==
    LET c == get_spitzer_harm_coeffs(zz)
        alpha == RMul(RDiv(RMul(I(3), np_pi), I(32)), RDiv(I(1), c.gamma_E))
    IN  IF c.raised THEN Raise(PhysicsErrorZ) ELSE Ret(Scalar(alpha))

nondim_tec_spitzer(zz) ==
    LET c == get_spitzer_harm_coeffs(zz)
        beta == RMul(Q(5, 2),
                     RSub(RMul(Q(8, 5), RDiv(c.delta_E, c.gamma_E)), I(1)))
    IN  IF c.raised THEN Raise(PhysicsErrorZ) ELSE Ret(Scalar(beta))

(***************************************************************************)
(* Braginskii                                                              *)
(***************************************************************************)
IsPar(fo) == fo = "parallel" \/ fo = "par"
IsPerp(fo) == fo = "perpendicular" \/ fo = "perp"

\* (the triple of 'all' in the wrong order)
ByOrientation_all_swapped(fo, par, perp, cross) ==
    IF IsPar(fo) THEN Scalar(par)
    ELSE IF IsPerp(fo) THEN Scalar(perp)
    ELSE IF fo = "cross" THEN Scalar(cross)
    ELSE IF fo = "all" THEN Array(<<par, cross, perp>>)
    ELSE None

\* (the short spelling 'par' taken for 'perp')
ByOrientation_par_as_perp(fo, par, perp, cross) ==
    IF fo = "parallel" THEN Scalar(par)
    ELSE IF IsPerp(fo) \/ fo = "par" THEN Scalar(perp)
    ELSE IF fo = "cross" THEN Scalar(cross)
    ELSE IF fo = "all" THEN Array(<<par, perp, cross>>)
    ELSE None

\* (the short spellings 'par' and 'perp' left out of the chain)
ByOrientation_long_names(fo, par, perp, cross) ==
    IF fo = "parallel" THEN Scalar(par)
    ELSE IF fo = "perpendicular" THEN Scalar(perp)
    ELSE IF fo = "cross" THEN Scalar(cross)
    ELSE IF fo = "all" THEN Array(<<par, perp, cross>>)
    ELSE None

\* the chain of `if field_orientation == ...: return ...` every orientation-aware
\* evaluator ends with; a name none of the tests matches falls off the end
ByOrientation(fo, par, perp, cross) ==
    IF IsPar(fo) THEN Scalar(par)
    ELSE IF IsPerp(fo) THEN Scalar(perp)
    ELSE IF fo = "cross" THEN Scalar(cross)
    ELSE IF fo = "all" THEN Array(<<par, perp, cross>>)
    ELSE None

\* hall**4 + d1*hall**2 + d0
Quartic(hall, d1, d0) ==
    RAdd(RAdd(I(IPow(hall, 4)), RMul(d1, I(IPow(hall, 2)))), d0)
\* the same Delta in the viscosity evaluators
QuarticH(hall, d1, d0) ==
    RAdd(RAdd(HPow(hall, 4), RMul(d1, HPow(hall, 2))), d0)

nondim_tc_e_braginskii(hall, zz, fo) ==
    LET allowed_Z == <<Num(1), Num(2), Num(3), Num(4), np_inf>>
        c == check_Z(allowed_Z, zz)
        Z_idx == c.Z_idx
        delta_0 == <<Dec(37703, 10000), Dec(10465, 10000), Dec(5814, 10000), Dec(4106, 10000), Dec(961, 10000)>>
        delta_1 == <<Dec(14790, 1000), Dec(10800, 1000), Dec(9618, 1000), Dec(9055, 1000), Dec(7482, 1000)>>
        gamma_1_prime == <<Dec(4664, 1000), Dec(3957, 1000), Dec(3721, 1000), Dec(3604, 1000), Dec(3250, 1000)>>
        gamma_0_prime == <<Dec(11920, 1000), Dec(5118, 1000), Dec(3525, 1000), Dec(2841, 1000), Dec(1200, 1000)>>
        gamma_1_doubleprime == <<Dec(2500, 1000), Dec(2500, 1000), Dec(2500, 1000), Dec(2500, 1000), Dec(2500, 1000)>>
        gamma_0_doubleprime == <<Dec(2167, 100), Dec(1537, 100), Dec(1353, 100), Dec(1265, 100), Dec(1023, 100)>>
        gamma_0 == RDiv(Row(gamma_0_prime, Z_idx), Row(delta_0, Z_idx))
        Delta == Quartic(hall, Row(delta_1, Z_idx), Row(delta_0, Z_idx))
        kappa_par == gamma_0
        kappa_perp == RDiv(RAdd(RMul(Row(gamma_1_prime, Z_idx), I(IPow(hall, 2))),
                                Row(gamma_0_prime, Z_idx)), Delta)
        kappa_cross == RDiv(RAdd(RMul(Row(gamma_1_doubleprime, Z_idx), I(IPow(hall, 3))),
                                 RMul(Row(gamma_0_doubleprime, Z_idx), I(hall))), Delta)
    IN  IF c.raised THEN Raise(PhysicsErrorZ)
        ELSE Ret(ByOrientation(fo, kappa_par, kappa_perp, kappa_cross))

nondim_tc_i_braginskii(hall, fo) ==
    LET kappa_par_coeff_0 == Dec(3906, 1000)
        kappa_par == kappa_par_coeff_0
        kappa_perp_coeff_2 == Dec(20, 10)
        kappa_perp_coeff_0 == Dec(2645, 1000)
        delta_1 == Dec(270, 100)
        delta_0 == Dec(677, 1000)
        Delta == Quartic(hall, delta_1, delta_0)
        kappa_perp == RDiv(RAdd(RMul(kappa_perp_coeff_2, I(IPow(hall, 2))),
                                kappa_perp_coeff_0), Delta)
        kappa_cross_coeff_3 == Dec(25, 10)
        kappa_cross_coeff_1 == Dec(465, 100)
        kappa_cross == RDiv(RAdd(RMul(kappa_cross_coeff_3, I(IPow(hall, 3))),
                                 RMul(kappa_cross_coeff_1, I(hall))), Delta)
    IN  Ret(ByOrientation(fo, kappa_par, kappa_perp, kappa_cross))

\* (the list of the other Braginskii electron coefficients)
allowed_Z_visc_e_braginskii_table == <<Num(1), Num(2), Num(3), Num(4), np_inf>>
\* allowed_Z of nondim_visc_e_braginskii
allowed_Z_visc_e_braginskii == <<Num(1)>>

nondim_visc_e_braginskii(hall, zz) ==
    LET allowed_Z == allowed_Z_visc_e_braginskii
        c == check_Z(allowed_Z, zz)
        eta_prime_0 == Dec(733, 1000)
        eta_doubleprime_2 == Dec(205, 100)
        eta_doubleprime_0 == Dec(850, 100)
        eta_tripleprime_2 == Dec(10, 10)
        eta_tripleprime_0 == Dec(791, 100)
        delta_1 == Dec(138, 10)
        delta_0 == Dec(116, 10)
        eta_0_e == eta_prime_0
        f_eta_2(h) == RDiv(RAdd(RMul(eta_doubleprime_2, HPow(h, 2)),
                                eta_doubleprime_0),
                           QuarticH(h, delta_1, delta_0))
        eta_2_e == f_eta_2(hall)
        eta_1_e == f_eta_2(TwiceHall(hall))
        f_eta_4(h) == RDiv(RAdd(RMul(eta_tripleprime_2, HPow(h, 3)),
                                RMul(eta_tripleprime_0, HPow(h, 1))),
                           QuarticH(h, delta_1, delta_0))
        eta_4_e == f_eta_4(hall)
        eta_3_e == f_eta_4(TwiceHall(hall))
    IN  IF c.raised THEN Raise(PhysicsErrorZ)
        ELSE Ret(Array(<<eta_0_e, eta_1_e, eta_2_e, eta_3_e, eta_4_e>>))

nondim_visc_i_braginskii(hall) ==
    LET eta_prime_0 == Dec(96, 100)
        eta_doubleprime_2 == Q(6, 5)
        eta_doubleprime_0 == Dec(223, 100)
        eta_tripleprime_2 == Dec(10, 10)
        eta_tripleprime_0 == Dec(238, 100)
        delta_1 == Dec(403, 100)
        delta_0 == Dec(233, 100)
        Delta == QuarticH(hall, delta_1, delta_0)
        eta_0_i == eta_prime_0
        f_eta_2(h) == RDiv(RAdd(RMul(eta_doubleprime_2, HPow(h, 2)),
                                eta_doubleprime_0), Delta)
        eta_2_i == f_eta_2(hall)
        eta_1_i == f_eta_2(TwiceHall(hall))
        f_eta_4(h) == RDiv(RAdd(RMul(eta_tripleprime_2, HPow(h, 3)),
                                RMul(eta_tripleprime_0, HPow(h, 1))), Delta)
        eta_4_i == f_eta_4(hall)
        eta_3_i == f_eta_4(TwiceHall(hall))
    IN  Ret(Array(<<eta_0_i, eta_1_i, eta_2_i, eta_3_i, eta_4_i>>))

nondim_resist_braginskii(hall, zz, fo) ==
    LET allowed_Z == <<Num(1), Num(2), Num(3), Num(4), np_inf>>
        c == check_Z(allowed_Z, zz)
        Z_idx == c.Z_idx
        delta_0 == <<Dec(37703, 10000), Dec(10465, 10000), Dec(5814, 10000), Dec(4106, 10000), Dec(961, 10000)>>
        delta_1 == <<Dec(14790, 1000), Dec(10800, 1000), Dec(9618, 1000), Dec(9055, 1000), Dec(7482, 1000)>>
        alpha_1_prime == <<Dec(6416, 1000), Dec(5523, 1000), Dec(5226, 1000), Dec(5077, 1000), Dec(4630, 1000)>>
        alpha_0_prime == <<Dec(18370, 10000), Dec(5956, 10000), Dec(3515, 10000), Dec(2566, 10000), Dec(678, 10000)>>
        alpha_1_doubleprime == <<Dec(1704, 1000), Dec(1704, 1000), Dec(1704, 1000), Dec(1704, 1000), Dec(1704, 1000)>>
        alpha_0_doubleprime == <<Dec(7796, 10000), Dec(3439, 10000), Dec(2400, 10000), Dec(1957, 10000), Dec(940, 10000)>>
        alpha_0 == RSub(I(1), RDiv(Row(alpha_0_prime, Z_idx), Row(delta_0, Z_idx)))
        Delta == Quartic(hall, Row(delta_1, Z_idx), Row(delta_0, Z_idx))
        alpha_par == alpha_0
        alpha_perp == RSub(I(1),
                           RDiv(RAdd(RMul(Row(alpha_1_prime, Z_idx), I(IPow(hall, 2))),
                                     Row(alpha_0_prime, Z_idx)), Delta))
        alpha_cross == RDiv(RAdd(RMul(Row(alpha_1_doubleprime, Z_idx), I(IPow(hall, 3))),
                                 RMul(Row(alpha_0_doubleprime, Z_idx), I(hall))), Delta)
    IN  IF c.raised THEN Raise(PhysicsErrorZ)
        ELSE Ret(ByOrientation(fo, alpha_par, alpha_perp, alpha_cross))

nondim_tec_braginskii(hall, zz, fo) ==
    LET allowed_Z == <<Num(1), Num(2), Num(3), Num(4), np_inf>>
        c == check_Z(allowed_Z, zz)
        Z_idx == c.Z_idx
        delta_0 == <<Dec(37703, 10000), Dec(10465, 10000), Dec(5814, 10000), Dec(4106, 10000), Dec(961, 10000)>>
        delta_1 == <<Dec(14790, 1000), Dec(10800, 1000), Dec(9618, 1000), Dec(9055, 1000), Dec(7482, 1000)>>
        beta_1_prime == <<Dec(5101, 1000), Dec(4450, 1000), Dec(4233, 1000), Dec(4124, 1000), Dec(3798, 1000)>>
        beta_0_prime == <<Dec(26810, 10000), Dec(9473, 10000), Dec(5905, 10000), Dec(4478, 10000), Dec(1461, 10000)>>
        beta_1_doubleprime == <<Dec(15, 10), Dec(15, 10), Dec(15, 10), Dec(15, 10), Dec(15, 10)>>
        beta_0_doubleprime == <<Dec(3053, 1000), Dec(1784, 1000), Dec(1442, 1000), Dec(1285, 1000), Dec(877, 1000)>>
        Delta == Quartic(hall, Row(delta_1, Z_idx), Row(delta_0, Z_idx))
        beta_0 == RDiv(Row(beta_0_prime, Z_idx), Row(delta_0, Z_idx))
        beta_par == beta_0
        beta_perp == RDiv(RAdd(RMul(Row(beta_1_prime, Z_idx), I(IPow(hall, 2))),
                               Row(beta_0_prime, Z_idx)), Delta)
        beta_cross == RDiv(RAdd(RMul(Row(beta_1_doubleprime, Z_idx), I(IPow(hall, 3))),
                                RMul(Row(beta_0_doubleprime, Z_idx), I(hall))), Delta)
    IN  IF c.raised THEN Raise(PhysicsErrorZ)
        ELSE Ret(ByOrientation(fo, beta_par, beta_perp, beta_cross))


(***************************************************************************)
(* Ji-Held, electrons.  Z_idx 0 and 1 are the literal rows for Z = 1 and   *)
(* Z = 2, Z_idx 2 the row computed from Z by the closed forms f_...(Z).    *)
(***************************************************************************)
\* np.abs(Z * hall)
AbsZHall(zz, hall) ==
    IF zz.t = "num" THEN Num(Abs(zz.v * hall))
    ELSE IF hall = 0 THEN np_nan
    ELSE np_inf
\* the same in the viscosity evaluator
AbsZHallH(zz, hall) ==
    IF hall.t = "num" THEN AbsZHall(zz, hall.v)
    ELSE IF zz.t # "num" THEN np_inf
    ELSE IF zz.v = 0 THEN Num(0)
    ELSE NearZero(Abs(zz.v * hall.v))

\* 2 * r
Twice(r) == IF r.t \in {"num", "near-zero"} THEN [r EXCEPT !.v = 2 * @] ELSE r

\* Z * x
ZTimes(zz, x) ==
    IF zz.t = "num" THEN RMul(I(zz.v), x)
    ELSE [x EXCEPT !.t.f = "Z*" \o @]

IsCube(z) == z >= 0 /\ \E k \in 0..z : k * k * k = z
Cbrt(z) == CHOOSE k \in 0..z : k * k * k = z

\* the closed forms of the parallel constants; one with a fractional power of Z is a
\* rational when Z is a perfect cube and is kept as a term otherwise
f_kappa_par_e(zz) ==
    IF zz.t = "num"
        THEN LET z == zz.v
             IN  RDiv(Q(135 * z * z + 544 * z + 252, 10),
                      Q(100 * z * z * z + 835 * z * z + 1520 * z + 451, 100))
    ELSE Term("f_kappa_par_e", 2, zz, Num(0))

f_alpha_par_e(zz) ==
    IF zz.t = "num" /\ IsCube(zz.v)
        THEN LET k == Cbrt(zz.v)
             IN  RSub(I(1), RDiv(I(k * k), Q(1460 * k * k - 330 * k + 888, 1000)))
    ELSE Term("f_alpha_par_e", 2, zz, Num(0))

f_beta_par_e(zz) ==
    IF zz.t = "num" /\ IsCube(zz.v)
        THEN LET k == Cbrt(zz.v)
             IN  RDiv(I(IPow(k, 5)),
                      Q(693 * IPow(k, 5) - 279 * IPow(k, 4) + 1000 * IPow(k, 3) + 10,
                        1000))
    ELSE Term("f_beta_par_e", 2, zz, Num(0))

f_eta_0_e(zz) ==
    IF zz.t = "num" /\ IsCube(zz.v)
        THEN LET k == Cbrt(zz.v)
             IN  RDiv(I(1), Q(550 * zz.v + 83 * k + 732, 1000))
    ELSE Term("f_eta_0_e", 2, zz, Num(0))

JiHeldAllowedZ == <<Num(1), Num(2), arbitrary>>

\* (a perpendicular closed form at r = 0 without its parallel constant: c_0 / c_0)
OverItself_without_par(c_0, x) == RDiv(c_0, c_0)
\* The perpendicular closed forms at r = 0, where every term with a power of r
\* is 0: (c_0 * x) / c_0.  The arithmetic is exact, so that the order of the
\* product and the quotient is immaterial; the quotient first keeps the
\* integers small.
OverItself(c_0, x) == RMul(RDiv(c_0, c_0), x)
\* The constants of the 'arbitrary' row are rationals for a numeric Z, those
\* with powers of Z ** (1/3) for a perfect cube Z.
RationalRow(Z_idx, zz) == Z_idx < 2 \/ (zz.t = "num" /\ IsCube(zz.v))

nondim_tc_e_ji_held(hall, zz, fo) ==
    LET allowed_Z == JiHeldAllowedZ
        c == check_Z(allowed_Z, zz)
        Z_idx == c.Z_idx
        r == AbsZHall(zz, hall)
        kappa_par_e == <<Dec(3204, 1000), Dec(2464, 1000), f_kappa_par_e(zz)>>
        kappa_par == Row(kappa_par_e, Z_idx)
        f_kappa_0 == IF zz.t = "num"
                     THEN LET z == zz.v
                          IN  Q(991 * z * z * z + 7530 * z * z + 51800 * z + 33300,
                                100000)
                     ELSE Term("f_kappa_0", 2, zz, Num(0))
        kappa_0 == <<Dec(936, 1000), Dec(1749, 1000), f_kappa_0>>
        f_k_0 == IF zz.t = "num"
                 THEN LET z == zz.v
                      IN  Q(396 * z * z * z + 463000 * z + 1760000, 10000000)
                 ELSE Term("f_k_0", 2, zz, Num(0))
        k_0 == <<Dec(222, 1000), Dec(269, 1000), f_k_0>>
        \* at r = 0 the numerator of f_kappa_perp is kappa_0 * kappa_par_e and
        \* the denominator kappa_0; the numerator of f_kappa_cross is
        \* r * (...) = 0 and the denominator k_0
        kappa_perp == IF r = Num(0)
                      THEN OverItself(Row(kappa_0, Z_idx), Row(kappa_par_e, Z_idx))
                      ELSE Term("f_kappa_perp", Z_idx, zz, r)
        kappa_cross == IF r = Num(0) THEN RDiv(I(0), Row(k_0, Z_idx))
                       ELSE Term("f_kappa_cross", Z_idx, zz, r)
    IN  IF c.raised THEN Raise(PhysicsErrorZ)
        ELSE Ret(ByOrientation(fo, ZTimes(zz, kappa_par), ZTimes(zz, kappa_perp),
                               ZTimes(zz, kappa_cross)))

nondim_resist_ji_held(hall, zz, fo) ==
    LET allowed_Z == JiHeldAllowedZ
        c == check_Z(allowed_Z, zz)
        Z_idx == c.Z_idx
        r == AbsZHall(zz, hall)
        alpha_par_e == <<Dec(504, 1000), Dec(431, 1000), f_alpha_par_e(zz)>>
        alpha_par == Row(alpha_par_e, Z_idx)
        f_alpha_0 == IF zz.t = "num" /\ IsCube(zz.v)
                     THEN LET k == Cbrt(zz.v)
                          IN  Q(623 * IPow(k, 5) - 2610 * IPow(k, 4)
                                + 3560 * IPow(k, 3) + 557, 1000)
                     ELSE Term("f_alpha_0", 2, zz, Num(0))
        alpha_0 == <<Dec(2130, 1000), Dec(3078, 1000), f_alpha_0>>
        f_a_0 == IF zz.t = "num" /\ IsCube(zz.v)
                 THEN LET k == Cbrt(zz.v)
                      IN  Q(759 * IPow(k, 8) + 8970 * IPow(k, 6)
                            + 20600 * IPow(k, 3) + 10600, 10000)
                 ELSE Term("f_a_0", 2, zz, Num(0))
        a_0 == <<Dec(4093, 1000), Dec(9250, 1000), f_a_0>>
        \* at r = 0 f_alpha_perp is 1 - (alpha_0 * (1 - alpha_par_e)) / alpha_0
        \* and the numerator of f_alpha_cross, Z**(2/3) * r * (...), is 0
        exact == r = Num(0) /\ RationalRow(Z_idx, zz)
        alpha_perp == IF exact
                      THEN RSub(I(1), OverItself(Row(alpha_0, Z_idx),
                                                 RSub(I(1), Row(alpha_par_e, Z_idx))))
                      ELSE Term("f_alpha_perp", Z_idx, zz, r)
        alpha_cross == IF exact THEN RDiv(I(0), Row(a_0, Z_idx))
                       ELSE Term("f_alpha_cross", Z_idx, zz, r)
    IN  IF c.raised THEN Raise(PhysicsErrorZ)
        ELSE Ret(ByOrientation(fo, alpha_par, alpha_perp, alpha_cross))

nondim_tec_ji_held(hall, zz, fo) ==
    LET allowed_Z == JiHeldAllowedZ
        c == check_Z(allowed_Z, zz)
        Z_idx == c.Z_idx
        r == AbsZHall(zz, hall)
        beta_par_e == <<Dec(702, 1000), Dec(905, 1000), f_beta_par_e(zz)>>
        beta_par == Row(beta_par_e, Z_idx)
        f_beta_0 == IF zz.t = "num" /\ IsCube(zz.v)
                    THEN LET k == Cbrt(zz.v)
                         IN  Q(156 * IPow(k, 8) + 994 * IPow(k, 6)
                               + 3210 * IPow(k, 3) - 840, 1000)
                    ELSE Term("f_beta_0", 2, zz, Num(0))
        beta_0 == <<Dec(3520, 1000), Dec(10550, 1000), f_beta_0>>
        f_b_0 == IF zz.t = "num"
                 THEN LET z == zz.v
                      IN  Q(687 * z * z * z + 7820 * z * z + 62300 * z + 36600,
                            100000)
                 ELSE Term("f_b_0", 2, zz, Num(0))
        b_0 == <<Dec(1074, 1000), Dec(1980, 1000), f_b_0>>
        \* at r = 0 f_beta_perp is (beta_0 * beta_par_e) / beta_0 and the
        \* numerator of f_beta_cross, Z * r * (...), is 0
        exact == r = Num(0) /\ RationalRow(Z_idx, zz)
        beta_perp == IF exact
                     THEN OverItself(Row(beta_0, Z_idx), Row(beta_par_e, Z_idx))
                     ELSE Term("f_beta_perp", Z_idx, zz, r)
        beta_cross == IF exact THEN RDiv(I(0), Row(b_0, Z_idx))
                      ELSE Term("f_beta_cross", Z_idx, zz, r)
    IN  IF c.raised THEN Raise(PhysicsErrorZ)
        ELSE Ret(ByOrientation(fo, beta_par, beta_perp, beta_cross))

nondim_visc_e_ji_held(hall, zz) ==
    LET allowed_Z == JiHeldAllowedZ
        c == check_Z(allowed_Z, zz)
        Z_idx == c.Z_idx
        r == AbsZHallH(zz, hall)
        eta_0_e == <<Dec(733, 1000), Dec(516, 1000), f_eta_0_e(zz)>>
        eta_0 == Row(eta_0_e, Z_idx)
        f_eta_2(i, x) == Term("f_eta_2", i, zz, x)
        eta_2 == f_eta_2(Z_idx, r)
        eta_1 == f_eta_2(Z_idx, Twice(r))
        f_eta_4(i, x) == Term("f_eta_4", i, zz, x)
        eta_4 == f_eta_4(Z_idx, r)
        eta_3 == f_eta_4(Z_idx, Twice(r))
    IN  IF c.raised THEN Raise(PhysicsErrorZ)
        ELSE Ret(Array(<<eta_0, eta_1, eta_2, eta_3, eta_4>>))

(***************************************************************************)
(* Ji-Held, ions.  zeta = 1/Z * sqrt(mu/theta) and r = |hall / sqrt(2)|    *)
(* are irrational: every component is kept as its closed form in           *)
(* (Z, mu, theta) and r.                                                   *)
(***************************************************************************)
\* 2x2 or 3x3 moments: the closure order the source hardcodes
K == 3

\* the exception `zeta = 1/Z * np.sqrt(mu/theta)` raises, "" when it raises none
ZetaError(zz, m, th) ==
    IF zz = Num(0) THEN "ZeroDivisionError"
    ELSE IF m = NoneV \/ th = NoneV THEN "TypeError"
    ELSE IF th = Num(0) THEN "ZeroDivisionError"
    ELSE ""

\* np.abs(hall / np.sqrt(2))
AbsHallOverSqrt2(hall) == [t |-> "/sqrt2", v |-> Abs(hall)]
\* the same in the viscosity evaluator
AbsHallOverSqrt2H(hall) ==
    IF hall.t = "num" THEN AbsHallOverSqrt2(hall.v)
    ELSE [t |-> "near-zero/sqrt2", v |-> Abs(hall.v)]

\* 2 * r for r = |hall| / sqrt(2)
r13Of(r) == [r EXCEPT !.v = 2 * r.v]

KName(f) == IF K = 3 THEN f \o "[K=3]" ELSE f \o "[K=2]"

nondim_tc_i_ji_held(hall, zz, m, th, fo) ==
    LET r == AbsHallOverSqrt2(hall)
        kappa_par_i == TermI(KName("kappa_par_i/sqrt2"), zz, Num(0), m, th)
        kappa_perp_i == TermI(KName("kappa_perp_i/sqrt2"), zz, r, m, th)
        kappa_cross_i == TermI(KName("kappa_cross_i/sqrt2"), zz, r, m, th)
    IN  IF ZetaError(zz, m, th) # "" THEN Raise(ZetaError(zz, m, th))
        ELSE Ret(ByOrientation(fo, kappa_par_i, kappa_perp_i, kappa_cross_i))

nondim_visc_i_ji_held(hall, zz, m, th) ==
    LET r == AbsHallOverSqrt2H(hall)
        r13 == r13Of(r)
        \* numerator at `num`, denominator Delta_perp_i2 at `den`; eta_1_i and
        \* eta_3_i are the expressions of eta_2_i and eta_4_i with r13 for r in
        \* the numerator: where r13 = r they are the same floats
        \* eta_2_i and eta_1_i have r and r13 in even powers only, added to
        \* 0.4483 * eta_0_i * Delta_par_i2 ** 2: of a near-zero r the float sums
        \* are the ones of r = 0
        eta_0_i == TermI(KName("eta_0_i/sqrt2"), zz, Num(0), m, th)
        eta_2_i == TermI(KName("eta_2_i(r;r)/sqrt2"), zz,
                         IF r.t = "near-zero/sqrt2" THEN AbsHallOverSqrt2(0)
                         ELSE r, m, th)
        eta_1_i == IF r13 = r \/ r.t = "near-zero/sqrt2" THEN eta_2_i
                   ELSE TermI(KName("eta_2_i(r13;r)/sqrt2"), zz, r, m, th)
        eta_4_i == TermI(KName("eta_4_i(r;r)/sqrt2"), zz, r, m, th)
        eta_3_i == IF r13 = r THEN eta_4_i
                   ELSE TermI(KName("eta_4_i(r13;r)/sqrt2"), zz, r, m, th)
    IN  IF ZetaError(zz, m, th) # "" THEN Raise(ZetaError(zz, m, th))
        ELSE Ret(Array(<<eta_0_i, eta_1_i, eta_2_i, eta_3_i, eta_4_i>>))

(***************************************************************************)
(* The dispatchers: model name -> evaluator.                               *)
(***************************************************************************)
\* plasmapy.atomic.atomic._is_electron
_is_electron(particle) == particle = "e"

\* (a dispatcher whose Braginskii ion branch looks Z up first)
nondim_thermal_conductivity_ion_Z_checked(hall, zz, particle, mdl, fo, m, th) ==
    IF _is_electron(particle)
        THEN IF mdl = "spitzer-harm" \/ mdl = "spitzer" THEN nondim_tc_e_spitzer(zz)
             ELSE IF mdl = "braginskii" THEN nondim_tc_e_braginskii(hall, zz, fo)
             ELSE IF mdl = "ji-held" THEN nondim_tc_e_ji_held(hall, zz, fo)
             ELSE Ret(Placeholder)
    ELSE IF mdl = "braginskii"
            THEN IF check_Z(<<Num(1), Num(2), Num(3), Num(4), np_inf>>, zz).raised
                     THEN Raise(PhysicsErrorZ)
                 ELSE nondim_tc_i_braginskii(hall, fo)
         ELSE IF mdl = "ji-held" THEN nondim_tc_i_ji_held(hall, zz, m, th, fo)
         ELSE Ret(Placeholder)

nondim_thermal_conductivity(hall, zz, particle, mdl, fo, m, th) ==
    IF _is_electron(particle)
        THEN IF mdl = "spitzer-harm" \/ mdl = "spitzer" THEN nondim_tc_e_spitzer(zz)
             ELSE IF mdl = "braginskii" THEN nondim_tc_e_braginskii(hall, zz, fo)
             ELSE IF mdl = "ji-held" THEN nondim_tc_e_ji_held(hall, zz, fo)
             ELSE Ret(Placeholder)
    ELSE IF mdl = "braginskii" THEN nondim_tc_i_braginskii(hall, fo)
         ELSE IF mdl = "ji-held" THEN nondim_tc_i_ji_held(hall, zz, m, th, fo)
         ELSE Ret(Placeholder)

nondim_viscosity(hall, zz, particle, mdl, fo, m, th) ==
    IF _is_electron(particle)
        THEN IF mdl = "braginskii" THEN nondim_visc_e_braginskii(hall, zz)
             ELSE IF mdl = "ji-held" THEN nondim_visc_e_ji_held(hall, zz)
             ELSE Ret(Placeholder)
    ELSE IF mdl = "braginskii" THEN nondim_visc_i_braginskii(hall)
         ELSE IF mdl = "ji-held" THEN nondim_visc_i_ji_held(hall, zz, m, th)
         ELSE Ret(Placeholder)

\* (a dispatcher that knows the Spitzer-Harm fit by its long name only)
nondim_resisitivity_long_name_only(hall, zz, particle, mdl, fo) ==
    IF mdl = "spitzer-harm" THEN nondim_resist_spitzer(zz)
    ELSE IF mdl = "braginskii" THEN nondim_resist_braginskii(hall, zz, fo)
    ELSE IF mdl = "ji-held" THEN nondim_resist_ji_held(hall, zz, fo)
    ELSE Ret(Placeholder)

nondim_resisitivity(hall, zz, particle, mdl, fo) ==
    IF mdl = "spitzer-harm" \/ mdl = "spitzer" THEN nondim_resist_spitzer(zz)
    ELSE IF mdl = "braginskii" THEN nondim_resist_braginskii(hall, zz, fo)
    ELSE IF mdl = "ji-held" THEN nondim_resist_ji_held(hall, zz, fo)
    ELSE Ret(Placeholder)

\* a dispatcher that sends a Spitzer-Harm request to the magnetized fit
nondim_te_conductivity_spitzer_magnetized(hall, zz, particle, mdl, fo) ==
    IF mdl = "spitzer-harm" \/ mdl = "spitzer" THEN nondim_tec_braginskii(hall, zz, fo)
    ELSE IF mdl = "braginskii" THEN nondim_tec_braginskii(hall, zz, fo)
    ELSE IF mdl = "ji-held" THEN nondim_tec_ji_held(hall, zz, fo)
    ELSE Ret(Placeholder)

nondim_te_conductivity(hall, zz, particle, mdl, fo) ==
    IF mdl = "spitzer-harm" \/ mdl = "spitzer" THEN nondim_tec_spitzer(zz)
    ELSE IF mdl = "braginskii" THEN nondim_tec_braginskii(hall, zz, fo)
    ELSE IF mdl = "ji-held" THEN nondim_tec_ji_held(hall, zz, fo)
    ELSE Ret(Placeholder)


(***************************************************************************)
(* The dimensional coefficient functions.  Temperatures, densities, masses *)
(* and collision times are physical quantities the model does not compute: *)
(* a result is the nondimensional value `hat` together with the name of    *)
(* the prefactor that scales it (`pre`), the Coulomb logarithm the         *)
(* collision rate was given (`clog`) and the unit it is converted to.      *)
(* `called` lists the functions the call invoked, in order.                *)
(***************************************************************************)
Quantity(unit, pre, clog, hat) ==
    [unit |-> unit, pre |-> pre, clog |-> clog, hat |-> hat]
NoQuantity == Quantity("", "", NoneV, None)

Done(q, called) == [exc |-> "", val |-> q, called |-> called]
\* (the exception swallowed: no value in its place, and the loop goes on)
Failed_swallowed(e, called) == [exc |-> "", val |-> NoQuantity, called |-> called]
Failed(e, called) == [exc |-> e, val |-> NoQuantity, called |-> called]

e_particle == "e"

resistivity(a) ==
    LET alpha_hat == nondim_resisitivity(a.hall_e.v, a.Z, a.e_particle, a.model,
                                         a.field_orientation)
    IN  IF alpha_hat.exc # ""
            THEN Failed(alpha_hat.exc, <<"resistivity", "nondim_resisitivity">>)
        ELSE Done(Quantity("ohm m", "1/(n_e*e^2*tau_e/m_e)", a.coulomb_log_ei,
                           alpha_hat.val),
                  <<"resistivity", "nondim_resisitivity",
                    "electron_ion_collision_rate">>)

thermoelectric_conductivity(a) ==
    LET beta_hat == nondim_te_conductivity(a.hall_e.v, a.Z, a.e_particle, a.model,
                                           a.field_orientation)
    IN  IF beta_hat.exc # ""
            THEN Failed(beta_hat.exc,
                        <<"thermoelectric_conductivity", "nondim_te_conductivity">>)
        ELSE Done(Quantity("1", "s/s", NoneV, beta_hat.val),
                  <<"thermoelectric_conductivity", "nondim_te_conductivity">>)

ion_thermal_conductivity(a) ==
    LET kappa_hat == nondim_thermal_conductivity(a.hall_i.v, a.Z, a.ion_particle,
                                                 a.model, a.field_orientation, a.mu,
                                                 a.theta)
    IN  IF kappa_hat.exc # ""
            THEN Failed(kappa_hat.exc,
                        <<"ion_thermal_conductivity", "ion_mass",
                          "nondim_thermal_conductivity">>)
        ELSE Done(Quantity("W/(m K)", "n_i*k_B^2*T_i*tau_i/m_i", a.coulomb_log_ii,
                           kappa_hat.val),
                  <<"ion_thermal_conductivity", "ion_mass",
                    "nondim_thermal_conductivity", "ion_ion_collision_rate">>)

electron_thermal_conductivity(a) ==
    LET kappa_hat == nondim_thermal_conductivity(a.hall_e.v, a.Z, a.e_particle,
                                                 a.model, a.field_orientation, a.mu,
                                                 a.theta)
    IN  IF kappa_hat.exc # ""
            THEN Failed(kappa_hat.exc,
                        <<"electron_thermal_conductivity",
                          "nondim_thermal_conductivity">>)
        ELSE Done(Quantity("W/(m K)", "n_e*k_B^2*T_e*tau_e/m_e", a.coulomb_log_ei,
                           kappa_hat.val),
                  <<"electron_thermal_conductivity", "nondim_thermal_conductivity",
                    "electron_ion_collision_rate">>)

\* np.isclose(hall, 0, rtol=1e-8): |hall - 0| <= atol + rtol * |0| with the default
\* (components 1 to 4 all divided by the first power of hall)
eta1_first_power(eta_hat, hall) ==
    IF hall.t = "near-zero" \/ hall.v = 0 THEN eta_hat
    ELSE <<eta_hat[1],
           RDiv(eta_hat[2], I(hall.v)),
           RDiv(eta_hat[3], I(hall.v)),
           RDiv(eta_hat[4], I(hall.v)),
           RDiv(eta_hat[5], I(hall.v))>>
\* atol = 1e-8: 0 and the near-zero Hall parameters are that close
isclose_0(hall) == hall.t = "near-zero" \/ hall.v = 0

\* the five components eta_hat[i] * (n*k_B*T*tau), components 1 and 2 divided by
\* hall**2 and 3 and 4 by hall outside the near-zero guard; the prefactor is `pre`
eta1(eta_hat, hall) ==
    IF isclose_0(hall)
        THEN <<eta_hat[1], eta_hat[2], eta_hat[3], eta_hat[4], eta_hat[5]>>
    ELSE <<eta_hat[1],
           RDiv(eta_hat[2], I(IPow(hall.v, 2))),
           RDiv(eta_hat[3], I(IPow(hall.v, 2))),
           RDiv(eta_hat[4], I(hall.v)),
           RDiv(eta_hat[5], I(hall.v))>>

\* (the placeholder scaled like a number instead of subscripted)
ion_viscosity_scaling_placeholder(a) ==
    LET eta_hat == nondim_viscosity(a.hall_i, a.Z, a.ion_particle, a.model,
                                    a.field_orientation, a.mu, a.theta)
    IN  IF eta_hat.exc # ""
            THEN Failed(eta_hat.exc, <<"ion_viscosity", "nondim_viscosity">>)
        ELSE IF eta_hat.val.shape # "array"
            THEN Done(Quantity("Pa s", "n_i*k_B*T_i*tau_i", a.coulomb_log_ii,
                               eta_hat.val),
                      <<"ion_viscosity", "nondim_viscosity", "ion_ion_collision_rate">>)
        ELSE Done(Quantity("Pa s", "n_i*k_B*T_i*tau_i", a.coulomb_log_ii,
                           Array(eta1(eta_hat.val.v, a.hall_i))),
                  <<"ion_viscosity", "nondim_viscosity", "ion_ion_collision_rate">>)

ion_viscosity(a) ==
    LET eta_hat == nondim_viscosity(a.hall_i, a.Z, a.ion_particle, a.model,
                                    a.field_orientation, a.mu, a.theta)
    IN  IF eta_hat.exc # ""
            THEN Failed(eta_hat.exc, <<"ion_viscosity", "nondim_viscosity">>)
        ELSE IF eta_hat.val.shape # "array"
            \* eta_hat[0] of the int placeholder 1
            THEN Failed("TypeError: 'int' object is not subscriptable",
                        <<"ion_viscosity", "nondim_viscosity",
                          "ion_ion_collision_rate">>)
        ELSE Done(Quantity("Pa s", "n_i*k_B*T_i*tau_i", a.coulomb_log_ii,
                           Array(eta1(eta_hat.val.v, a.hall_i))),
                  <<"ion_viscosity", "nondim_viscosity", "ion_ion_collision_rate">>)

electron_viscosity(a) ==
    LET eta_hat == nondim_viscosity(a.hall_e, a.Z, a.e_particle, a.model,
                                    a.field_orientation, a.mu, a.theta)
    IN  IF eta_hat.exc # ""
            THEN Failed(eta_hat.exc, <<"electron_viscosity", "nondim_viscosity">>)
        ELSE IF eta_hat.val.shape # "array"
            THEN Failed("TypeError: 'int' object is not subscriptable",
                        <<"electron_viscosity", "nondim_viscosity",
                          "electron_ion_collision_rate">>)
        ELSE Done(Quantity("Pa s", "n_e*k_B*T_e*tau_e", a.coulomb_log_ei,
                           Array(eta1(eta_hat.val.v, a.hall_e))),
                  <<"electron_viscosity", "nondim_viscosity",
                    "electron_ion_collision_rate">>)


(***************************************************************************)
(* classical_transport                                                     *)
(***************************************************************************)
\* str.lower on the names the modelled calls pass
Lower(str) ==
    CASE str = "Resistivity" -> "resistivity"
      [] str = "Braginskii" -> "braginskii"
      [] str = "Epperlein-Haines" -> "epperlein-haines"
      [] str = "Parallel" -> "parallel"
      [] OTHER -> str

valid_coeffs == <<"resistivity", "thermoelectric_conductivity",
                  "ion_thermal_conductivity", "electron_thermal_conductivity",
                  "ion_viscosity", "electron_viscosity">>

valid_models_with_reserved ==
    <<"braginskii", "spitzer", "spitzer-harm", "epperlein-haines", "ji-held">>
valid_models == <<"braginskii", "spitzer", "spitzer-harm", "ji-held">>

\* (the long spellings alone)
valid_fields_long == <<"parallel", "perpendicular", "cross", "all">>
valid_fields == <<"parallel", "par", "perpendicular", "perp", "cross", "all">>

Range(xs) == {xs[i] : i \in 1..Len(xs)}

\* (a validation that forgets the orientation)
validation_error_no_field(cs, mdl, fo) ==
    IF \E i \in 1..Len(cs) : cs[i] \notin Range(valid_coeffs)
        THEN "PhysicsError: Unknown transport coefficient"
    ELSE IF mdl \notin Range(valid_models)
        THEN "PhysicsError: Unknown transport model"
    ELSE ""

\* (the model checked before the coefficient names)
validation_error_model_first(cs, mdl, fo) ==
    IF mdl \notin Range(valid_models)
        THEN "PhysicsError: Unknown transport model"
    ELSE IF \E i \in 1..Len(cs) : cs[i] \notin Range(valid_coeffs)
        THEN "PhysicsError: Unknown transport coefficient"
    ELSE IF fo \notin Range(valid_fields)
        THEN "PhysicsError: Unknown field orientation"
    ELSE ""

\* the error the three validation loops end in for the lowered names, "" when none:
\* the coefficient names are checked first, then the model, then the orientation
validation_error(cs, mdl, fo) ==
    IF \E i \in 1..Len(cs) : cs[i] \notin Range(valid_coeffs)
        THEN "PhysicsError: Unknown transport coefficient"
    ELSE IF mdl \notin Range(valid_models)
        THEN "PhysicsError: Unknown transport model"
    ELSE IF fo \notin Range(valid_fields)
        THEN "PhysicsError: Unknown field orientation"
    ELSE ""

\* (the two thermal conductivities registered under each other's name)
transport_funcs_swapped(coeff, a) ==
    CASE coeff = "resistivity" -> resistivity(a)
      [] coeff = "thermoelectric_conductivity" -> thermoelectric_conductivity(a)
      [] coeff = "ion_thermal_conductivity" -> electron_thermal_conductivity(a)
      [] coeff = "electron_thermal_conductivity" -> ion_thermal_conductivity(a)
      [] coeff = "ion_viscosity" -> ion_viscosity(a)
      [] coeff = "electron_viscosity" -> electron_viscosity(a)

\* the function transport_funcs[coeff] applied to args[coeff]; every args[coeff]
\* holds the base arg_dict and the inputs of its own species
transport_funcs(coeff, a) ==
    CASE coeff = "resistivity" -> resistivity(a)
      [] coeff = "thermoelectric_conductivity" -> thermoelectric_conductivity(a)
      [] coeff = "ion_thermal_conductivity" -> ion_thermal_conductivity(a)
      [] coeff = "electron_thermal_conductivity" -> electron_thermal_conductivity(a)
      [] coeff = "ion_viscosity" -> ion_viscosity(a)
      [] coeff = "electron_viscosity" -> electron_viscosity(a)

\* the species collaborator (plasmapy.atomic): whether ion_mass / charge_state
\* resolve the particle, and the charge state of a resolved particle
\* ("He-4" names an isotope and no charge: it has a mass and no charge state)
ion_mass_known(p) == p \in {"e", "p", "He-4 1+", "He-4 2+", "He-4"}
charge_state_known(p) == p \in {"e", "p", "He-4 1+", "He-4 2+"}
charge_state(p) ==
    CASE p = "e" -> Num(-1)
      [] p = "He-4 2+" -> Num(2)
      [] OTHER -> Num(1)

\* lines 129-143 of Coulomb_logarithm: the ValueError of the first lookup that
\* fails, in the order mass of particles[0], charge of particles[0], mass of
\* particles[1], charge of particles[1]; "" when all four resolve
\* (a particle without a charge state let through)
lookup_error_mass_only(p) ==
    IF ~ion_mass_known(p)
        THEN "ValueError: Unable to find mass of particle: " \o p
             \o " in Coulomb_logarithm."
    ELSE ""
lookup_error(p) ==
    IF ~ion_mass_known(p)
        THEN "ValueError: Unable to find mass of particle: " \o p
             \o " in Coulomb_logarithm."
    ELSE IF ~charge_state_known(p)
        THEN "ValueError: Unable to find charge of particle: " \o p
             \o " in Coulomb_logarithm."
    ELSE ""
species_error(particles) ==
    IF lookup_error(particles[1]) # "" THEN lookup_error(particles[1])
    ELSE lookup_error(particles[2])

(***************************************************************************)
(* The arguments of the modelled calls.  An optional argument is NoneV     *)
(* when the caller leaves it out.  An argument enters the state when the   *)
(* code first reads it: the arguments of a call never change, so drawing   *)
(* one there is drawing it when the call is made.                          *)
(***************************************************************************)
\* every valid name, one of them in mixed case, and a name of no coefficient
CoeffArgs == {"Resistivity", "thermoelectric_conductivity",
              "ion_thermal_conductivity", "electron_thermal_conductivity",
              "ion_viscosity", "electron_viscosity", "conductivity"}
ModelArgs == {"Braginskii", "spitzer", "spitzer-harm", "ji-held",
              "Epperlein-Haines", "mhd"}
FieldArgs == {"Parallel", "par", "perpendicular", "perp", "cross", "all",
              "diagonal"}
ParticleArgs == {"p", "He-4", "Xx"}
ZArgs == {NoneV, Num(-1), Num(0), Num(2)}
CLogArgs == {NoneV, Num(0), Num(5)}
\* the values the Coulomb_logarithm primitive may return for the plasma of the call
CLogVals == {Num(0), Num(2)}
HallArgs == {NoneV, Num(1)}
\* the Hall parameters of a call that requests the one viscosity `visc`: also
\* 2, and one inside the guard np.isclose(hall, 0), 1e-9
HallArgsOf(cs, visc) ==
    IF cs = <<visc>> THEN HallArgs \cup {Num(2), NearZero(1)} ELSE HallArgs
\* the value Hall_parameter returns: B is left at its default 0.0 in the modelled calls
HallOfB == Num(0)
\* mu and theta: left out, or both given
MuThetaArgs == {<<NoneV, NoneV>>, <<Num(0), Num(1)>>}
\* under 'ji-held', where a default replaces the one left out, also one of the
\* two given
MuThetaArgsOf(mdl) ==
    IF mdl = "ji-held"
    THEN MuThetaArgs \cup {<<Num(0), NoneV>>, <<NoneV, Num(1)>>}
    ELSE MuThetaArgs
\* the defaults m_e / m_i and T_e / T_i
mu_default == [t |-> "m_e/m_i", v |-> 0]
theta_default == [t |-> "T_e/T_i", v |-> 0]

\* an optional argument the code has not read yet ("" for a name)
Unread == [t |-> "unread", v |-> 0]
NoKwargs == [model |-> "", field_orientation |-> "",
             Z |-> Unread, coulomb_log_ei |-> Unread, coulomb_log_ii |-> Unread,
             hall_e |-> Unread, hall_i |-> Unread, mu |-> Unread, theta |-> Unread]

\* The optional arguments of the calls made: a call that requests at most one
\* coefficient supplies any of the Coulomb logarithms, Hall parameters and
\* Ji-Held ratios; a call that requests several supplies them all together
\* (when it supplied coulomb_log_ei, `first`) or leaves them all out.
Together(first, S) ==
    IF Len(coeffs) <= 1 THEN S
    ELSE IF first = NoneV THEN S \cap {NoneV}
    ELSE S \ {NoneV}
TogetherPairs(first, S) ==
    IF Len(coeffs) <= 1 \/ S = {<<NoneV, NoneV>>} THEN S
    ELSE {p \in S : /\ (p[1] = NoneV) <=> (first = NoneV)
                    /\ (p[2] = NoneV) <=> (first = NoneV)}

\* (the species lookup preferred to the caller's Z)
resolved_Z_from_species(p, zarg) ==
    IF charge_state_known(p) THEN charge_state(p) ELSE zarg
\* lines 451-461: the local Z after `if Z is None: Z = charge_state(ion_particle)`
resolved_Z(p, zarg) == IF zarg = NoneV THEN charge_state(p) ELSE zarg

\* (the default also in place of a supplied 0: `if not mu`)
ji_held_default_if_falsy(mdl, arg, default) ==
    IF mdl = "ji-held" /\ arg \in {NoneV, Num(0)} THEN default ELSE arg
\* lines 494-499: `if model == 'ji-held': if mu is None: mu = m_e / m_i`, and
\* the same for theta
ji_held_default(mdl, arg, default) ==
    IF mdl = "ji-held" /\ arg = NoneV THEN default ELSE arg

\* (a Hall parameter left out stays None: none is computed)
resolved_hall_only_supplied(arg, computed) == arg
\* (the primitive's value taken whether or not the caller supplied one)
resolved_hall_recomputed(arg, computed) == computed
\* lines 487-492: `if hall_e is None: hall_e = Hall_parameter(...)`, and the same
\* for hall_i
resolved_hall(arg, computed) == IF arg = NoneV THEN computed ELSE arg

\* `if coulomb_log < 4: warnings.warn(...)` and `if coulomb_log < 1: raise`
strong_coupling_warned_at_1(val) == val.v < 1
strong_coupling_warned(val) == val.v < 4
below_validity_at_0(val) == val.v < 0
below_validity(val) == val.v < 1

SeqsUpTo(S, n) == UNION {[1..k -> S] : k \in 0..n}

Finish(result) ==
    /\ pc' = "done"
    /\ outcome' = result

\* lines 390-436: lower the names (the coefficient names in place, in the caller's
\* list), then validate coefficient names, model and orientation
Validate ==
    /\ pc = "start"
    /\ LET cs == [i \in 1..Len(coeffs) |-> Lower(coeffs[i])]
           mdl == Lower(model)
           fo == Lower(field_orientation)
           err == validation_error(cs, mdl, fo)
       IN  /\ coeffs' = cs
           /\ model' = mdl
           /\ field_orientation' = fo
           /\ kwargs' = [kwargs EXCEPT !.model = model,
                                       !.field_orientation = field_orientation]
           /\ IF err # "" THEN Finish(err)
              ELSE pc' = "species" /\ outcome' = outcome
    /\ UNCHANGED <<coeffs_arg, ion_particle, Z, coulomb_log_ei, coulomb_log_ii,
                   hall_e, hall_i, mu, theta, transport_coeffs, calls, warned>>
    /\ UNCHANGED ev_vars

\* lines 445-461: ion mass, and the charge state unless Z is given
ResolveSpecies ==
    /\ pc = "species"
    /\ \E p \in ParticleArgs, zarg \in ZArgs :
        /\ ion_particle' = p
        /\ IF ~ion_mass_known(p)
              THEN /\ calls' = Append(calls, "ion_mass")
                   /\ Z' = Z /\ kwargs' = kwargs
                   /\ Finish("ValueError: Unable to find mass of particle")
           ELSE IF zarg = NoneV
              THEN /\ calls' = calls \o <<"ion_mass", "charge_state">>
                   /\ kwargs' = [kwargs EXCEPT !.Z = zarg]
                   /\ IF ~charge_state_known(p)
                         THEN /\ Z' = Z
                              /\ Finish("ValueError: Unable to find charge of particle")
                      ELSE /\ Z' = resolved_Z(p, zarg)
                           /\ pc' = "coulomb_ei" /\ outcome' = outcome
           ELSE /\ calls' = Append(calls, "ion_mass")
                /\ kwargs' = [kwargs EXCEPT !.Z = zarg]
                /\ Z' = resolved_Z(p, zarg)
                /\ IF zarg.t = "num" /\ zarg.v < 0
                      THEN Finish("ValueError: Z not allowed to be negative")
                   ELSE pc' = "coulomb_ei" /\ outcome' = outcome
    /\ UNCHANGED <<coeffs_arg, coeffs, model, field_orientation, coulomb_log_ei,
                   coulomb_log_ii, hall_e, hall_i, mu, theta, transport_coeffs,
                   warned>>
    /\ UNCHANGED ev_vars

\* lines 466-475: the electron-ion Coulomb logarithm, its warning and its error
ResolveCoulombEI ==
    /\ pc = "coulomb_ei"
    /\ \E arg \in CLogArgs :
        /\ kwargs' = [kwargs EXCEPT !.coulomb_log_ei = arg]
        /\ calls' = IF arg = NoneV THEN Append(calls, "Coulomb_logarithm(e,ion)")
                    ELSE calls
        /\ IF arg = NoneV /\ species_error(<<e_particle, ion_particle>>) # ""
              \* Coulomb_logarithm raises: nothing is assigned
              THEN /\ coulomb_log_ei' = coulomb_log_ei
                   /\ warned' = warned
                   /\ Finish(species_error(<<e_particle, ion_particle>>))
           ELSE \E val \in (IF arg = NoneV THEN CLogVals ELSE {arg}) :
                /\ coulomb_log_ei' = val
                /\ warned' = IF strong_coupling_warned(val)
                             THEN Append(warned, "coulomb_log_ei") ELSE warned
                /\ IF below_validity(val)
                      THEN Finish("PhysicsError: coulomb_log_ei less than 1")
                   ELSE pc' = "coulomb_ii" /\ outcome' = outcome
    /\ UNCHANGED <<coeffs_arg, coeffs, model, field_orientation, ion_particle, Z,
                   coulomb_log_ii, hall_e, hall_i, mu, theta, transport_coeffs>>
    /\ UNCHANGED ev_vars

\* lines 476-484: the ion-ion Coulomb logarithm, its warning and its error
ResolveCoulombII ==
    /\ pc = "coulomb_ii"
    /\ \E arg \in Together(kwargs.coulomb_log_ei, CLogArgs) :
        /\ kwargs' = [kwargs EXCEPT !.coulomb_log_ii = arg]
        /\ calls' = IF arg = NoneV THEN Append(calls, "Coulomb_logarithm(ion,ion)")
                    ELSE calls
        /\ IF arg = NoneV /\ species_error(<<ion_particle, ion_particle>>) # ""
              \* Coulomb_logarithm raises: nothing is assigned
              THEN /\ coulomb_log_ii' = coulomb_log_ii
                   /\ warned' = warned
                   /\ Finish(species_error(<<ion_particle, ion_particle>>))
           ELSE \E val \in (IF arg = NoneV THEN CLogVals ELSE {arg}) :
                /\ coulomb_log_ii' = val
                /\ warned' = IF strong_coupling_warned(val)
                             THEN Append(warned, "coulomb_log_ii") ELSE warned
                /\ IF below_validity(val)
                      THEN Finish("PhysicsError: coulomb_log_ii less than 1")
                   ELSE pc' = "hall" /\ outcome' = outcome
    /\ UNCHANGED <<coeffs_arg, coeffs, model, field_orientation, ion_particle, Z,
                   coulomb_log_ei, hall_e, hall_i, mu, theta, transport_coeffs>>
    /\ UNCHANGED ev_vars

\* lines 486-499: the Hall parameters, and the Ji-Held defaults of mu and theta
ResolveHall ==
    /\ pc = "hall"
    /\ \E he \in Together(kwargs.coulomb_log_ei,
                          HallArgsOf(coeffs, "electron_viscosity")),
          hi \in Together(kwargs.coulomb_log_ei,
                          HallArgsOf(coeffs, "ion_viscosity")),
          mt \in TogetherPairs(kwargs.coulomb_log_ei, MuThetaArgsOf(model)) :
        /\ kwargs' = [kwargs EXCEPT !.hall_e = he, !.hall_i = hi,
                                    !.mu = mt[1], !.theta = mt[2]]
        /\ hall_e' = resolved_hall(he, HallOfB)
        /\ hall_i' = resolved_hall(hi, HallOfB)
        /\ calls' = calls
                    \o (IF he = NoneV THEN <<"Hall_parameter(e,ion)">> ELSE <<>>)
                    \o (IF hi = NoneV THEN <<"Hall_parameter(ion,ion)">> ELSE <<>>)
        /\ mu' = ji_held_default(model, mt[1], mu_default)
        /\ theta' = ji_held_default(model, mt[2], theta_default)
    /\ pc' = "eval"
    /\ UNCHANGED <<coeffs_arg, coeffs, model, field_orientation, ion_particle, Z,
                   coulomb_log_ei, coulomb_log_ii, transport_coeffs, warned, outcome>>
    /\ UNCHANGED ev_vars

\* lines 512-593: args[coeff]; the model keeps the six dicts as one record, of which
\* each function reads the keys of its own dict
args ==
    [Z |-> Z, model |-> model, field_orientation |-> field_orientation,
     ion_particle |-> ion_particle, e_particle |-> e_particle,
     hall_e |-> hall_e, hall_i |-> hall_i,
     coulomb_log_ei |-> coulomb_log_ei, coulomb_log_ii |-> coulomb_log_ii,
     mu |-> mu, theta |-> theta]

\* lines 597-598: one iteration of the loop over coeffs
EvalCoeff ==
    /\ pc = "eval"
    /\ Len(transport_coeffs) < Len(coeffs)
    /\ \E res \in {transport_funcs(coeffs[Len(transport_coeffs) + 1], args)} :
        /\ calls' = calls \o res.called
        /\ IF res.exc # ""
              THEN /\ transport_coeffs' = transport_coeffs
                   /\ Finish(res.exc)
           ELSE /\ transport_coeffs' = Append(transport_coeffs, res.val)
                /\ pc' = pc /\ outcome' = outcome
    /\ UNCHANGED <<coeffs_arg, coeffs, model, field_orientation, ion_particle, Z,
                   coulomb_log_ei, coulomb_log_ii, hall_e, hall_i, mu, theta, warned,
                   kwargs>>
    /\ UNCHANGED ev_vars

\* line 600
Return ==
    /\ pc = "eval"
    /\ Len(transport_coeffs) = Len(coeffs)
    /\ Finish("return")
    /\ UNCHANGED <<coeffs_arg, coeffs, model, field_orientation, ion_particle, Z,
                   coulomb_log_ei, coulomb_log_ii, hall_e, hall_i, mu, theta,
                   transport_coeffs, calls, warned, kwargs>>
    /\ UNCHANGED ev_vars

\* the tuple line 600 returns
returned == <<transport_coeffs, hall_e, hall_i, coulomb_log_ei, coulomb_log_ii>>

(***************************************************************************)
(* Coulomb_logarithm.  Masses, charges, T and V are small integers in      *)
(* units where k_B, 4*pi*eps0, hbar and e are 1.  V enters b_perp as V**2  *)
(* and b_deBroglie as V, and the default V is a square root: the velocity  *)
(* is kept as its square, and so is b_min.  The result ln(b_max / b_min)   *)
(* is kept as the pair of its arguments, b_max being the Debye length of   *)
(* (T, n_e).                                                               *)
(***************************************************************************)
\* the species collaborator: atomic.ion_mass of a particle it resolves
ion_mass(p) ==
    CASE p = "e" -> 1
      [] p = "p" -> 3
      [] OTHER -> 12

\* isinstance(particles, (list, tuple)) and len(particles) == 2
well_formed(particles) ==
    particles.kind \in {"list", "tuple"} /\ Len(particles.items) = 2

\* the lookups the loop of lines 129-143 makes, in order, up to the first one
\* that fails
lookups_of(p) ==
    IF ~ion_mass_known(p) THEN <<"atomic.ion_mass(" \o p \o ")">>
    ELSE <<"atomic.ion_mass(" \o p \o ")", "atomic.charge_state(" \o p \o ")">>
lookups(particles) ==
    IF lookup_error(particles[1]) # "" THEN lookups_of(particles[1])
    ELSE lookups_of(particles[1]) \o lookups_of(particles[2])

\* (the mass of the first particle in place of the reduced mass)
reduced_mass_of_first(m0, m1) == Q(m0, 1)
\* line 145
reduced_mass(m0, m1) == Q(m0 * m1, m0 + m1)

\* a < b for rationals
RLess(a, b) == a.n * b.d < b.n * a.d

MalformedPair == "ValueError: The third input of Coulomb_logarithm must be a list "
                 \o "or tuple containing representations of two charged particles."
NoLog == [b_max |-> <<0, 0>>, b_min |-> "", b_min_sq |-> I(0)]

\* An array-valued relative velocity V; T and n_e stay scalars, so that b_perp
\* and b_deBroglie are arrays of the size of V.
ArrayV(vs) == [t |-> "array", v |-> vs]
\* V.flat
Flat(V) == IF V.t = "array" THEN V.v ELSE <<V.v>>
\* one element of an impact parameter: which of the two it is, and its square
Elem(b, sq) == [b |-> b, sq |-> sq]
\* (b_perp also when the two are equal: `>=` for `>`)
larger_on_tie_b_perp(b_perp_i, b_deBroglie_i) ==
    IF RLess(b_perp_i.sq, b_deBroglie_i.sq) THEN b_deBroglie_i ELSE b_perp_i
\* lines 199-202: the value written to b_min.flat[i]
larger(b_perp_i, b_deBroglie_i) ==
    IF RLess(b_deBroglie_i.sq, b_perp_i.sq) THEN b_perp_i ELSE b_deBroglie_i
\* lines 195-202: b_min = np.zeros_like(b_perp) and the loop over
\* range(b_min.size) from index i on (i counts from 1); `written` counts the
\* assignments to each element
RECURSIVE b_min_loop(_, _, _, _)
b_min_loop(i, b_min, b_perp, b_deBroglie) ==
    IF i > Len(b_min.flat) THEN b_min
    ELSE b_min_loop(i + 1,
                    [flat |-> [b_min.flat EXCEPT
                                  ![i] = larger(b_perp[i], b_deBroglie[i])],
                     written |-> [b_min.written EXCEPT ![i] = @ + 1]],
                    b_perp, b_deBroglie)
zeros_like(b) == [flat |-> [i \in 1..Len(b) |-> Elem("0", I(0))],
                  written |-> [i \in 1..Len(b) |-> 0]]

Coulomb_logarithm_array(T, n_e, particles, V) ==
    LET p0 == particles.items[1]
        p1 == particles.items[2]
        charges == <<Abs(charge_state(p0).v), Abs(charge_state(p1).v)>>
        mass == reduced_mass(ion_mass(p0), ion_mass(p1))
        size == Len(Flat(V))
        V_sq == [i \in 1..size |-> I(Flat(V)[i] * Flat(V)[i])]
        b_perp == [i \in 1..size |->
                     LET b == RDiv(I(charges[1] * charges[2]), RMul(mass, V_sq[i]))
                     IN  Elem("b_perp", RMul(b, b))]
        b_deBroglie == [i \in 1..size |->
                          Elem("b_deBroglie",
                               RInv(RMul(I(4), RMul(RMul(mass, mass), V_sq[i]))))]
        b_min == b_min_loop(1, zeros_like(b_perp), b_perp, b_deBroglie)
    IN  [exc |-> "",
         val |-> [b_max |-> <<T, n_e>>,
                  b_min |-> [i \in 1..size |-> b_min.flat[i].b],
                  b_min_sq |-> [i \in 1..size |-> b_min.flat[i].sq],
                  written |-> b_min.written],
         called |-> lookups(particles.items)
                    \o <<"Debye_length", "_check_relativistic">>]

Coulomb_logarithm(T, n_e, particles, V) ==
    IF ~well_formed(particles)
        THEN [exc |-> MalformedPair, val |-> NoLog, called |-> <<>>]
    ELSE IF species_error(particles.items) # ""
        THEN [exc |-> species_error(particles.items), val |-> NoLog,
              called |-> lookups(particles.items)]
    ELSE IF V.t = "array" THEN Coulomb_logarithm_array(T, n_e, particles, V)
    ELSE LET p0 == particles.items[1]
             p1 == particles.items[2]
             charges == <<Abs(charge_state(p0).v), Abs(charge_state(p1).v)>>
             mass == reduced_mass(ion_mass(p0), ion_mass(p1))
             \* V ** 2, with V = sqrt(3 * k_B * T / reduced_mass) when V is None
             V_sq == IF V = NoneV THEN RDiv(I(3 * T), mass) ELSE I(V.v * V.v)
             b_perp == RDiv(I(charges[1] * charges[2]), RMul(mass, V_sq))
             b_perp_sq == RMul(b_perp, b_perp)
             b_deBroglie_sq == RInv(RMul(I(4), RMul(RMul(mass, mass), V_sq)))
             \* the loop over range(b_min.size) of a scalar: one element
             b_min == larger(Elem("b_perp", b_perp_sq),
                             Elem("b_deBroglie", b_deBroglie_sq))
         IN  [exc |-> "",
              val |-> [b_max |-> <<T, n_e>>,
                       b_min |-> b_min.b,
                       b_min_sq |-> b_min.sq],
              called |-> lookups(particles.items)
                         \o <<"Debye_length", "_check_relativistic">>]

(***************************************************************************)
(* Direct calls of the nondimensional dispatchers and of check_Z.          *)
(***************************************************************************)
EvFuncs == {"nondim_thermal_conductivity", "nondim_viscosity",
            "nondim_resisitivity", "nondim_te_conductivity"}
HallVals == 0..MaxHall
ZVals == {Num(0), Num(1), Num(2), Num(3), Num(4), Num(5), Num(8), Num(16), np_inf}
EvParticles == {"e", "p"}
EvModels == Range(valid_models) \cup {"epperlein-haines"}
EvFields == Range(valid_fields) \cup {"diagonal"}
EvMus == {Num(0), mu_default}
EvThetas == {Num(1), theta_default}

EvArgs == [func : EvFuncs, hall : HallVals, Z : ZVals, particle : EvParticles,
           model : EvModels, field_orientation : EvFields,
           mu : EvMus, theta : EvThetas]
NoEvCall == [func |-> "", hall |-> 0, Z |-> NoneV, particle |-> "", model |-> "",
             field_orientation |-> "", mu |-> NoneV, theta |-> NoneV]

\* the allowed_Z lists of the source
AllowedZLists == {<<Num(1), Num(2), Num(4), Num(16), np_inf>>,
                  <<Num(1), Num(2), Num(3), Num(4), np_inf>>,
                  allowed_Z_visc_e_braginskii,
                  JiHeldAllowedZ}
ZcArgs == [allowed_Z : AllowedZLists, Z : ZVals]
NoZcCall == [allowed_Z |-> <<>>, Z |-> NoneV]

Dispatch(a) ==
    CASE a.func = "nondim_thermal_conductivity" ->
            nondim_thermal_conductivity(a.hall, a.Z, a.particle, a.model,
                                        a.field_orientation, a.mu, a.theta)
      [] a.func = "nondim_viscosity" ->
            nondim_viscosity(Num(a.hall), a.Z, a.particle, a.model,
                             a.field_orientation, a.mu, a.theta)
      [] a.func = "nondim_resisitivity" ->
            nondim_resisitivity(a.hall, a.Z, a.particle, a.model,
                                a.field_orientation)
      [] a.func = "nondim_te_conductivity" ->
            nondim_te_conductivity(a.hall, a.Z, a.particle, a.model,
                                   a.field_orientation)

CallEvaluator ==
    /\ ev_args # NoEvCall
    /\ ~ev_done
    /\ ev_res' = Dispatch(ev_args)
    /\ ev_done' = TRUE
    /\ UNCHANGED <<ev_args, zc_args, zc_res, zc_done, cl_args, cl_res, cl_done>>
    /\ UNCHANGED ct_vars

ClParticles == {"e", "p", "He-4 2+", "He-4", "Xx"}
ClKinds == {"list", "tuple", "str"}
MaxPair == 3
\* largest size of an array-valued V
MaxSize == 3
\* relative velocities of an array: with two unit charges b_perp is the larger
\* at 1, the two are equal at 2 and b_deBroglie is the larger at 3
ClVelocities == {1, 2, 3}
ClArgs == [T : {1, 2}, n_e : {1},
           particles : [kind : ClKinds,
                        items : UNION {[1..k -> ClParticles] : k \in 1..MaxPair}],
           V : {NoneV, Num(1), Num(2)}]
          \cup
          [T : {1}, n_e : {1},
           particles : [kind : {"list"}, items : [1..2 -> ClParticles]],
           V : {ArrayV(vs) : vs \in UNION {[1..k -> ClVelocities] :
                                               k \in 2..MaxSize}}]
NoClCall == [T |-> 0, n_e |-> 0, particles |-> [kind |-> "", items |-> <<>>],
             V |-> NoneV]
NoClRes == [exc |-> "", val |-> NoLog, called |-> <<>>]

CallCoulombLogarithm ==
    /\ cl_args # NoClCall
    /\ ~cl_done
    /\ cl_res' = Coulomb_logarithm(cl_args.T, cl_args.n_e, cl_args.particles,
                                   cl_args.V)
    /\ cl_done' = TRUE
    /\ UNCHANGED <<cl_args, ev_args, ev_res, ev_done, zc_args, zc_res, zc_done>>
    /\ UNCHANGED ct_vars

CallCheckZ ==
    /\ zc_args # NoZcCall
    /\ ~zc_done
    /\ zc_res' = check_Z(zc_args.allowed_Z, zc_args.Z)
    /\ zc_done' = TRUE
    /\ UNCHANGED <<zc_args, ev_args, ev_res, ev_done, cl_args, cl_res, cl_done>>
    /\ UNCHANGED ct_vars

(***************************************************************************)
(* Specifications.                                                         *)
(***************************************************************************)
NoCall ==
    /\ pc = "idle"
    /\ coeffs_arg = <<>> /\ coeffs = <<>>
    /\ model = "" /\ field_orientation = ""
    /\ ion_particle = ""
    /\ Z = NoneV
    /\ coulomb_log_ei = NoneV /\ coulomb_log_ii = NoneV
    /\ hall_e = NoneV /\ hall_i = NoneV
    /\ mu = NoneV /\ theta = NoneV
    /\ transport_coeffs = <<>>
    /\ calls = <<>> /\ warned = <<>>
    /\ outcome = ""
    /\ kwargs = NoKwargs

NoDirectCall ==
    /\ ev_args = NoEvCall /\ ev_res = Ret(None) /\ ev_done = FALSE
    /\ zc_args = NoZcCall /\ zc_res = [raised |-> FALSE, Z_idx |-> nan]
    /\ zc_done = FALSE
    /\ cl_args = NoClCall /\ cl_res = NoClRes /\ cl_done = FALSE

\* a call classical_transport(coeffs, ..., model, field_orientation, ...) is made
Init ==
    /\ pc = "start"
    /\ coeffs_arg \in SeqsUpTo(CoeffArgs, MaxCoeffs)
    /\ coeffs = coeffs_arg
    /\ model \in ModelArgs
    /\ field_orientation \in FieldArgs
    /\ ion_particle = ""
    /\ Z = NoneV
    /\ coulomb_log_ei = NoneV /\ coulomb_log_ii = NoneV
    /\ hall_e = NoneV /\ hall_i = NoneV
    /\ mu = NoneV /\ theta = NoneV
    /\ transport_coeffs = <<>>
    /\ calls = <<>> /\ warned = <<>>
    /\ outcome = ""
    /\ kwargs = NoKwargs
    /\ NoDirectCall

Next ==
    \/ Validate
    \/ ResolveSpecies
    \/ ResolveCoulombEI
    \/ ResolveCoulombII
    \/ ResolveHall
    \/ EvalCoeff
    \/ Return

Spec == Init /\ [][Next]_vars

\* a dispatcher, or check_Z, is called directly
InitEval ==
    /\ NoCall
    /\ \/ /\ ev_args \in EvArgs
          /\ ev_res = Ret(None) /\ ev_done = FALSE
          /\ zc_args = NoZcCall /\ zc_res = [raised |-> FALSE, Z_idx |-> nan]
          /\ zc_done = FALSE
          /\ cl_args = NoClCall /\ cl_res = NoClRes /\ cl_done = FALSE
       \/ /\ zc_args \in ZcArgs
          /\ zc_res = [raised |-> FALSE, Z_idx |-> nan] /\ zc_done = FALSE
          /\ ev_args = NoEvCall /\ ev_res = Ret(None) /\ ev_done = FALSE
          /\ cl_args = NoClCall /\ cl_res = NoClRes /\ cl_done = FALSE
       \/ /\ cl_args \in ClArgs
          /\ cl_res = NoClRes /\ cl_done = FALSE
          /\ ev_args = NoEvCall /\ ev_res = Ret(None) /\ ev_done = FALSE
          /\ zc_args = NoZcCall /\ zc_res = [raised |-> FALSE, Z_idx |-> nan]
          /\ zc_done = FALSE

NextEval ==
    \/ CallEvaluator
    \/ CallCheckZ
    \/ CallCoulombLogarithm

SpecEval == InitEval /\ [][NextEval]_vars

(***************************************************************************)
(* Properties of classical_transport (specification Spec).                 *)
(***************************************************************************)
IsNum(x) == x.t \in {"num", "near-zero"}

\* unit and prefactor that tell the six coefficients apart
SignatureOf(name) ==
    CASE name = "resistivity" -> <<"ohm m", "1/(n_e*e^2*tau_e/m_e)">>
      [] name = "thermoelectric_conductivity" -> <<"1", "s/s">>
      [] name = "ion_thermal_conductivity" -> <<"W/(m K)", "n_i*k_B^2*T_i*tau_i/m_i">>
      [] name = "electron_thermal_conductivity" ->
            <<"W/(m K)", "n_e*k_B^2*T_e*tau_e/m_e">>
      [] name = "ion_viscosity" -> <<"Pa s", "n_i*k_B*T_i*tau_i">>
      [] name = "electron_viscosity" -> <<"Pa s", "n_e*k_B*T_e*tau_e">>
      [] OTHER -> <<"", "">>

\* C1: a call that returns hands back five things: a list with one coefficient
\* per requested name, in the order of the request (element i is the coefficient
\* named, case-insensitively, by coeffs[i], repeated names included), then
\* hall_e, hall_i, coulomb_log_ei and coulomb_log_ii, all four resolved.
C1_RequestOrder ==
    outcome = "return" =>
        /\ Len(returned) = 5
        /\ Len(returned[1]) = Len(coeffs_arg)
        /\ \A i \in 1..Len(coeffs_arg) :
              <<returned[1][i].unit, returned[1][i].pre>>
                  = SignatureOf(Lower(coeffs_arg[i]))
        /\ \A k \in 2..5 : IsNum(returned[k])
        /\ returned[2] = hall_e /\ returned[3] = hall_i
        /\ returned[4] = coulomb_log_ei /\ returned[5] = coulomb_log_ii

\* a returned call with two different names, the first one in mixed case
C1_Witness ==
    /\ outcome = "return"
    /\ coeffs_arg = <<"Resistivity", "ion_thermal_conductivity">>
    /\ Len(transport_coeffs) = 2
    /\ transport_coeffs[1].unit = "ohm m"
    /\ transport_coeffs[2].pre = "n_i*k_B^2*T_i*tau_i/m_i"

\* the primitives that compute: evaluators, collision rates, Hall parameter
ComputingCalls ==
    {"resistivity", "thermoelectric_conductivity", "ion_thermal_conductivity",
     "electron_thermal_conductivity", "ion_viscosity", "electron_viscosity",
     "nondim_resisitivity", "nondim_te_conductivity",
     "nondim_thermal_conductivity", "nondim_viscosity",
     "electron_ion_collision_rate", "ion_ion_collision_rate",
     "Hall_parameter(e,ion)", "Hall_parameter(ion,ion)"}

CoulombErrors == {"PhysicsError: coulomb_log_ei less than 1",
                  "PhysicsError: coulomb_log_ii less than 1"}

\* C2: once a Coulomb logarithm, supplied or computed, is resolved below 1 the
\* call has ended with the PhysicsError of that logarithm, no evaluator, collision
\* rate or Hall parameter has been invoked, and no coefficient exists.
C2_BelowOneRaises ==
    /\ (IsNum(coulomb_log_ei) /\ coulomb_log_ei.v < 1) =>
          /\ pc = "done"
          /\ outcome = "PhysicsError: coulomb_log_ei less than 1"
    /\ (IsNum(coulomb_log_ii) /\ coulomb_log_ii.v < 1) =>
          /\ pc = "done"
          /\ outcome = "PhysicsError: coulomb_log_ii less than 1"
    /\ (\/ IsNum(coulomb_log_ei) /\ coulomb_log_ei.v < 1
        \/ IsNum(coulomb_log_ii) /\ coulomb_log_ii.v < 1
        \/ outcome \in CoulombErrors) =>
          /\ Range(calls) \cap ComputingCalls = {}
          /\ transport_coeffs = <<>>
          /\ hall_e = NoneV /\ hall_i = NoneV

\* the ion-ion logarithm computed by the primitive comes out below 1
C2_Witness ==
    /\ outcome = "PhysicsError: coulomb_log_ii less than 1"
    /\ "Coulomb_logarithm(ion,ion)" \in Range(calls)
    /\ coulomb_log_ii = Num(0)
    /\ coulomb_log_ei = Num(5)

EvaluatorErrors == {PhysicsErrorZ, "ZeroDivisionError",
                    "TypeError: 'int' object is not subscriptable"}

\* C3: a Coulomb logarithm resolved in [1, 4) has emitted its warning and has not
\* ended the call: with both logarithms at least 1 the call goes on to the Hall
\* parameters and the evaluators, and ends by returning unless an evaluator
\* raises.  With both logarithms at least 4 no warning has been emitted.
C3_WarningBelowFour ==
    /\ (IsNum(coulomb_log_ei) /\ coulomb_log_ei.v >= 1 /\ coulomb_log_ei.v < 4) =>
          /\ "coulomb_log_ei" \in Range(warned)
          /\ outcome # "PhysicsError: coulomb_log_ei less than 1"
          /\ pc = "done" =>
                \/ IsNum(coulomb_log_ii)
                \/ outcome = species_error(<<ion_particle, ion_particle>>)
    /\ (IsNum(coulomb_log_ii) /\ coulomb_log_ii.v >= 1 /\ coulomb_log_ii.v < 4) =>
          /\ "coulomb_log_ii" \in Range(warned)
          /\ outcome # "PhysicsError: coulomb_log_ii less than 1"
    /\ (/\ IsNum(coulomb_log_ei) /\ coulomb_log_ei.v >= 1
        /\ IsNum(coulomb_log_ii) /\ coulomb_log_ii.v >= 1) =>
          /\ pc \in {"hall", "eval", "done"}
          /\ pc = "done" => outcome \in {"return"} \cup EvaluatorErrors
    /\ (IsNum(coulomb_log_ei) /\ coulomb_log_ei.v >= 4) =>
          "coulomb_log_ei" \notin Range(warned)
    /\ (IsNum(coulomb_log_ii) /\ coulomb_log_ii.v >= 4) =>
          "coulomb_log_ii" \notin Range(warned)
    /\ (/\ IsNum(coulomb_log_ei) /\ coulomb_log_ei.v >= 4
        /\ IsNum(coulomb_log_ii) /\ coulomb_log_ii.v >= 4) => warned = <<>>

\* a call that warned about the computed electron-ion logarithm 2 and returned
C3_Witness ==
    /\ outcome = "return"
    /\ coulomb_log_ei = Num(2)
    /\ coulomb_log_ii = Num(5)
    /\ warned = <<"coulomb_log_ei">>
    /\ transport_coeffs # <<>>

KnownCoeffs == {"resistivity", "thermoelectric_conductivity",
                "ion_thermal_conductivity", "electron_thermal_conductivity",
                "ion_viscosity", "electron_viscosity"}
KnownModels == {"braginskii", "spitzer", "spitzer-harm", "ji-held"}
KnownFields == {"parallel", "par", "perpendicular", "perp", "cross", "all"}
UnknownErrors == {"PhysicsError: Unknown transport coefficient",
                  "PhysicsError: Unknown transport model",
                  "PhysicsError: Unknown field orientation"}
NothingComputed ==
    /\ calls = <<>>
    /\ transport_coeffs = <<>>
    /\ ion_particle = "" /\ Z = NoneV
    /\ coulomb_log_ei = NoneV /\ coulomb_log_ii = NoneV
    /\ hall_e = NoneV /\ hall_i = NoneV

\* C4: a call with a coefficient name, a model name or an orientation outside
\* the valid sets (after lowering) ends in the "Unknown ..." PhysicsError, and
\* when it does nothing has been looked up or computed: no species lookup, no
\* Coulomb logarithm, no Hall parameter, no collision rate, no evaluator.
C4_UnknownNameRaisesFirst ==
    /\ (/\ pc # "start"
        /\ \/ \E i \in 1..Len(coeffs_arg) : Lower(coeffs_arg[i]) \notin KnownCoeffs
           \/ model \notin KnownModels
           \/ field_orientation \notin KnownFields) =>
          /\ pc = "done"
          /\ outcome \in UnknownErrors
    /\ outcome \in UnknownErrors => NothingComputed

\* valid coefficients and model, unknown orientation
C4_Witness ==
    /\ outcome = "PhysicsError: Unknown field orientation"
    /\ coeffs_arg = <<"Resistivity", "ion_viscosity">>
    /\ model = "spitzer"
    /\ field_orientation = "diagonal"
    /\ NothingComputed

CoeffsKnown == \A i \in 1..Len(coeffs_arg) : Lower(coeffs_arg[i]) \in KnownCoeffs

WithField(fo) == Dispatch([ev_args EXCEPT !.field_orientation = fo])
HasOrientation == ev_args.func \in {"nondim_thermal_conductivity",
                                    "nondim_resisitivity",
                                    "nondim_te_conductivity"}
\* 'all' is the triple of the separately requested components
AllIsTriple ==
    /\ ev_res.val.shape = "array"
    /\ Len(ev_res.val.v) = 3
    /\ WithField("parallel") = Ret(Scalar(ev_res.val.v[1]))
    /\ WithField("perpendicular") = Ret(Scalar(ev_res.val.v[2]))
    /\ WithField("cross") = Ret(Scalar(ev_res.val.v[3]))

C7_ParallelIgnoresHall ==
    /\ (/\ ev_done
        /\ HasOrientation
        /\ ev_args.field_orientation \in {"parallel", "par"}) =>
          /\ \A h \in HallVals : Dispatch([ev_args EXCEPT !.hall = h]) = ev_res
          /\ ev_res.val.shape # "array"
    /\ (/\ ev_done
        /\ ev_args.func = "nondim_viscosity"
        /\ ev_res.val.shape = "array") =>
          \A h \in HallVals :
              LET other == Dispatch([ev_args EXCEPT !.hall = h])
              IN  /\ other.exc = ""
                  /\ other.val.v[1] = ev_res.val.v[1]

\* a Braginskii parallel electron coefficient at the largest Hall parameter
C7_Witness ==
    /\ ev_done
    /\ ev_args.func = "nondim_te_conductivity"
    /\ ev_args.model = "braginskii"
    /\ ev_args.field_orientation = "par"
    /\ ev_args.hall = MaxHall
    /\ ev_args.Z = Num(3)
    /\ ev_res.exc = ""
    /\ ev_res.val.shape = "scalar"

IndicesOf(xs, y) == {i \in 1..Len(xs) : xs[i] = y}

\* C8: check_Z returns the position (from 0) of the entry of allowed_Z that
\* equals Z, so that the evaluator reads the row of that Z: the Braginskii
\* electron thermal conductivity for Z = 1, parallel, is 11.92 / 3.7703.  With
\* no entry equal to Z and no 'arbitrary' entry check_Z raises.
C8_CheckZPosition ==
    /\ zc_done =>
          /\ \A i \in IndicesOf(zc_args.allowed_Z, zc_args.Z) :
                /\ ~zc_res.raised
                /\ zc_res.Z_idx = i - 1
                /\ Row(zc_args.allowed_Z, zc_res.Z_idx) = zc_args.Z
          /\ (/\ IndicesOf(zc_args.allowed_Z, zc_args.Z) = {}
              /\ IndicesOf(zc_args.allowed_Z, arbitrary) = {}) => zc_res.raised
    /\ (/\ ev_done
        /\ ev_args.func = "nondim_thermal_conductivity"
        /\ ev_args.particle = "e"
        /\ ev_args.model = "braginskii"
        /\ ev_args.Z = Num(1)
        /\ ev_args.field_orientation \in {"parallel", "par"}) =>
          ev_res = Ret(Scalar(Q(119200, 37703)))

\* Z = inf against the Braginskii list: the last position
C8_Witness ==
    /\ zc_done
    /\ zc_args.allowed_Z = <<Num(1), Num(2), Num(3), Num(4), np_inf>>
    /\ zc_args.Z = np_inf
    /\ zc_res = [raised |-> FALSE, Z_idx |-> 4]

\* C9: with 'arbitrary' in allowed_Z, check_Z returns the position of
\* 'arbitrary' only for a Z no entry equals; a listed Z gets the position of
\* its own entry, never that of 'arbitrary'.  The Ji-Held electron thermal
\* conductivity, parallel, for Z = 1 and Z = 2 is therefore Z times the
\* tabulated 3.204 and 2.464.
C9_ArbitraryOnlyWithoutMatch ==
    /\ (zc_done /\ IndicesOf(zc_args.allowed_Z, arbitrary) # {}) =>
          /\ ~zc_res.raised
          /\ IF IndicesOf(zc_args.allowed_Z, zc_args.Z) = {}
                THEN Row(zc_args.allowed_Z, zc_res.Z_idx) = arbitrary
             ELSE /\ Row(zc_args.allowed_Z, zc_res.Z_idx) = zc_args.Z
                  /\ zc_res.Z_idx + 1 \notin IndicesOf(zc_args.allowed_Z, arbitrary)
    /\ (/\ ev_done
        /\ ev_args.func = "nondim_thermal_conductivity"
        /\ ev_args.particle = "e"
        /\ ev_args.model = "ji-held"
        /\ ev_args.field_orientation = "parallel") =>
          /\ ev_args.Z = Num(1) => ev_res = Ret(Scalar(Dec(3204, 1000)))
          /\ ev_args.Z = Num(2) => ev_res = Ret(Scalar(Dec(4928, 1000)))

\* Z = 2 against the Ji-Held list: position 1, not the position 2 of 'arbitrary'
C9_Witness ==
    /\ zc_done
    /\ zc_args.allowed_Z = JiHeldAllowedZ
    /\ zc_args.Z = Num(2)
    /\ zc_res = [raised |-> FALSE, Z_idx |-> 1]

ElectronCall ==
    \/ ev_args.func \in {"nondim_resisitivity", "nondim_te_conductivity"}
    \/ ev_args.particle = "e"
RaisedOnZ == ev_res.exc = PhysicsErrorZ

\* C10: an electron evaluator raises on Z exactly outside its own list: the
\* Spitzer-Harm evaluators outside {1, 2, 4, 16, inf}; the Braginskii electron
\* resistivity, thermoelectric conductivity and thermal conductivity outside
\* {1, 2, 3, 4, inf}; the Braginskii electron viscosity outside {1}; the
\* Ji-Held electron evaluators for no Z at all.
C10_AllowedZSets ==
    (ev_done /\ ElectronCall) =>
        /\ (HasOrientation /\ ev_args.model \in {"spitzer", "spitzer-harm"}) =>
              (RaisedOnZ <=>
                  ev_args.Z \notin {Num(1), Num(2), Num(4), Num(16), np_inf})
        /\ (HasOrientation /\ ev_args.model = "braginskii") =>
              (RaisedOnZ <=>
                  ev_args.Z \notin {Num(1), Num(2), Num(3), Num(4), np_inf})
        /\ (ev_args.func = "nondim_viscosity" /\ ev_args.model = "braginskii") =>
              (RaisedOnZ <=> ev_args.Z # Num(1))
        /\ ev_args.model = "ji-held" => ev_res.exc = ""

\* the Braginskii electron viscosity turns down Z = 2
C10_Witness ==
    /\ ev_done
    /\ ev_args.func = "nondim_viscosity"
    /\ ev_args.particle = "e"
    /\ ev_args.model = "braginskii"
    /\ ev_args.Z = Num(2)
    /\ ev_res.exc = PhysicsErrorZ

(***************************************************************************)
(* Combinations a model does not implement.                                *)
(***************************************************************************)
SpitzerNames == {"spitzer", "spitzer-harm"}
UnsupportedBySpitzer == {"ion_thermal_conductivity", "ion_viscosity",
                         "electron_viscosity"}
Viscosities == {"ion_viscosity", "electron_viscosity"}
TypeErrorInt == "TypeError: 'int' object is not subscriptable"
\* the call got as far as the loop over coeffs
ReachedEval == pc \in {"eval", "done"} /\ IsNum(hall_e) /\ IsNum(hall_i)
OnlyUnsupported ==
    /\ coeffs # <<>>
    /\ \A i \in 1..Len(coeffs) : coeffs[i] \in UnsupportedBySpitzer
\* the position of the first viscosity of the request, 0 when it has none
FirstViscosity ==
    IF \E i \in 1..Len(coeffs) : coeffs[i] \in Viscosities
        THEN CHOOSE i \in 1..Len(coeffs) :
                /\ coeffs[i] \in Viscosities
                /\ \A j \in 1..(i - 1) : coeffs[j] \notin Viscosities
    ELSE 0

Supplied(x) == x # Unread /\ x # NoneV
LeftOut(x) == x = NoneV
MassError == "ValueError: Unable to find mass of particle"
ChargeError == "ValueError: Unable to find charge of particle"
NegativeZError == "ValueError: Z not allowed to be negative"
NothingAfterSpecies ==
    /\ coulomb_log_ei = NoneV /\ coulomb_log_ii = NoneV
    /\ hall_e = NoneV /\ hall_i = NoneV
    /\ transport_coeffs = <<>>
    /\ Range(calls) \subseteq {"ion_mass", "charge_state"}

C13_AsStated == coeffs = coeffs_arg

NeverCalled(primitive) == \A i \in 1..Len(calls) : calls[i] # primitive
CalledOnce(primitive) ==
    \E i \in 1..Len(calls) :
        /\ calls[i] = primitive
        /\ \A j \in 1..Len(calls) : calls[j] = primitive => j = i
\* an argument the caller supplied is the local value and its primitive was
\* never called; one left out made exactly one call of the primitive
UsedAsGiven(arg, local, primitive) ==
    /\ Supplied(arg) => (local = arg /\ NeverCalled(primitive))
    /\ LeftOut(arg) => CalledOnce(primitive)
    /\ arg = Unread => (local = NoneV /\ NeverCalled(primitive))
ElectronCoeffs == {"resistivity", "electron_thermal_conductivity",
                   "electron_viscosity"}
IonCoeffs == {"ion_thermal_conductivity", "ion_viscosity"}

\* C14: a Coulomb logarithm or Hall parameter the caller supplies is used as
\* given: its primitive is not called, the supplied value is the one the
\* coefficient functions get, and it is the value returned.  One left out is
\* computed by exactly one call of its primitive, and that value is the one
\* used and returned.
C14_SuppliedValuesUsedAsGiven ==
    /\ UsedAsGiven(kwargs.coulomb_log_ei, coulomb_log_ei, "Coulomb_logarithm(e,ion)")
    /\ UsedAsGiven(kwargs.coulomb_log_ii, coulomb_log_ii,
                   "Coulomb_logarithm(ion,ion)")
    /\ UsedAsGiven(kwargs.hall_e, hall_e, "Hall_parameter(e,ion)")
    /\ UsedAsGiven(kwargs.hall_i, hall_i, "Hall_parameter(ion,ion)")
    /\ (LeftOut(kwargs.coulomb_log_ei) /\ coulomb_log_ei # NoneV) =>
          coulomb_log_ei \in CLogVals
    /\ (LeftOut(kwargs.coulomb_log_ii) /\ coulomb_log_ii # NoneV) =>
          coulomb_log_ii \in CLogVals
    /\ LeftOut(kwargs.hall_e) => hall_e = HallOfB
    /\ LeftOut(kwargs.hall_i) => hall_i = HallOfB
    /\ \A i \in 1..Len(transport_coeffs) :
          /\ pc = "done" =>
                transport_coeffs[i]
                    = transport_funcs(coeffs[i],
                          [args EXCEPT
                              !.hall_e = IF Supplied(kwargs.hall_e)
                                            THEN kwargs.hall_e ELSE HallOfB,
                              !.hall_i = IF Supplied(kwargs.hall_i)
                                            THEN kwargs.hall_i ELSE HallOfB]).val
          /\ (coeffs[i] \in ElectronCoeffs /\ Supplied(kwargs.coulomb_log_ei)) =>
                transport_coeffs[i].clog = kwargs.coulomb_log_ei
          /\ (coeffs[i] \in IonCoeffs /\ Supplied(kwargs.coulomb_log_ii)) =>
                transport_coeffs[i].clog = kwargs.coulomb_log_ii
          /\ coeffs[i] \in ElectronCoeffs =>
                transport_coeffs[i].clog = coulomb_log_ei
          /\ coeffs[i] \in IonCoeffs =>
                transport_coeffs[i].clog = coulomb_log_ii
    /\ outcome = "return" =>
          /\ Supplied(kwargs.hall_e) => returned[2] = kwargs.hall_e
          /\ Supplied(kwargs.hall_i) => returned[3] = kwargs.hall_i
          /\ Supplied(kwargs.coulomb_log_ei) => returned[4] = kwargs.coulomb_log_ei
          /\ Supplied(kwargs.coulomb_log_ii) => returned[5] = kwargs.coulomb_log_ii
          /\ LeftOut(kwargs.hall_e) => returned[2] = HallOfB
          /\ LeftOut(kwargs.hall_i) => returned[3] = HallOfB

\* hall_e and coulomb_log_ei supplied, hall_i and coulomb_log_ii computed
C14_Witness ==
    /\ outcome = "return"
    /\ kwargs.hall_e = Num(1) /\ kwargs.hall_i = NoneV
    /\ kwargs.coulomb_log_ei = Num(5) /\ kwargs.coulomb_log_ii = NoneV
    /\ returned[2] = Num(1) /\ returned[3] = HallOfB
    /\ returned[4] = Num(5) /\ returned[5] = Num(2)
    /\ coeffs = <<"electron_thermal_conductivity">>
    /\ field_orientation = "perp"
    /\ Len(transport_coeffs) = 1
    /\ transport_coeffs[1].clog = Num(5)
    /\ transport_coeffs[1] = electron_thermal_conductivity(
                                 [args EXCEPT !.hall_e = Num(1)]).val
    /\ CalledOnce("Coulomb_logarithm(ion,ion)")
    /\ NeverCalled("Coulomb_logarithm(e,ion)")

(***************************************************************************)
(* Properties of Coulomb_logarithm (specification SpecEval).               *)
(***************************************************************************)
ClPair == cl_args.particles.items
ClWellFormed ==
    cl_args.particles.kind \in {"list", "tuple"} /\ Len(ClPair) = 2
MassKnown == {"e", "p", "He-4 1+", "He-4 2+", "He-4"}
ChargeKnown == {"e", "p", "He-4 1+", "He-4 2+"}
\* the first particle of the pair that does not resolve, and what of it
FirstUnresolved ==
    IF ClPair[1] \notin ChargeKnown THEN ClPair[1] ELSE ClPair[2]
Computed == {"Debye_length", "_check_relativistic"}
NamesParticle(exc, what, p) ==
    exc = "ValueError: Unable to find " \o what \o " of particle: " \o p
          \o " in Coulomb_logarithm."

\* C15: Coulomb_logarithm raises ValueError, before any species lookup, when
\* particles is not a list or tuple of exactly two elements; with a well-formed
\* pair it raises a ValueError that names the first particle whose mass or
\* charge does not resolve; in both cases neither the Debye length nor an
\* impact parameter is computed.  A well-formed pair that resolves raises
\* nothing.
C15_MalformedOrUnresolved ==
    cl_done =>
        IF ~ClWellFormed
            THEN /\ cl_res.exc = MalformedPair
                 /\ cl_res.called = <<>>
                 /\ cl_res.val = NoLog
        ELSE IF \E i \in 1..2 : ClPair[i] \notin ChargeKnown
            THEN /\ NamesParticle(cl_res.exc,
                                  IF FirstUnresolved \in MassKnown
                                      THEN "charge" ELSE "mass",
                                  FirstUnresolved)
                 /\ Range(cl_res.called) \cap Computed = {}
                 /\ cl_res.val = NoLog
        ELSE /\ cl_res.exc = ""
             /\ Computed \subseteq Range(cl_res.called)
             /\ \A i \in 1..Len(Flat(cl_args.V)) :
                   (IF cl_args.V.t = "array" THEN cl_res.val.b_min[i]
                    ELSE cl_res.val.b_min) \in {"b_perp", "b_deBroglie"}

\* the second particle of a tuple has a mass and no charge
C15_Witness ==
    /\ cl_done
    /\ cl_args.particles = [kind |-> "tuple", items |-> <<"e", "He-4">>]
    /\ NamesParticle(cl_res.exc, "charge", "He-4")
    /\ cl_res.called = <<"atomic.ion_mass(e)", "atomic.charge_state(e)",
                         "atomic.ion_mass(He-4)", "atomic.charge_state(He-4)">>

Swapped == [cl_args.particles EXCEPT !.items = <<ClPair[2], ClPair[1]>>]

\* C16: for a pair of two particles, Coulomb_logarithm of the swapped pair, with
\* the same T, n_e and V, returns the same value; it raises exactly when the
\* call with the pair as given raises.
C16_PairSymmetry ==
    (cl_done /\ ClWellFormed) =>
        LET other == Coulomb_logarithm(cl_args.T, cl_args.n_e, Swapped, cl_args.V)
        IN  /\ other.exc = "" <=> cl_res.exc = ""
            /\ other.val = cl_res.val

\* an electron and an alpha particle, the relative velocity left out
C16_Witness ==
    /\ cl_done
    /\ cl_args.particles = [kind |-> "list", items |-> <<"e", "He-4 2+">>]
    /\ cl_args.V = NoneV
    /\ cl_res.exc = ""
    /\ cl_res.val.b_max = <<cl_args.T, cl_args.n_e>>
    /\ cl_res.val.b_min = "b_perp"

(***************************************************************************)
(* C17: the Spitzer-Harm coefficients know no magnetic field.              *)
(***************************************************************************)
SpitzerZ == {Num(1), Num(2), Num(4), Num(16), np_inf}
\* resistivity, thermoelectric conductivity or electron thermal conductivity
\* requested under 'spitzer-harm'
SpitzerCall ==
    /\ ev_done
    /\ ev_args.model = "spitzer-harm"
    /\ HasOrientation
    /\ ev_args.func = "nondim_thermal_conductivity" => ev_args.particle = "e"

IgnoringCase(name) ==
    CASE name = "resistivity" -> {"resistivity", "Resistivity"}
      [] name = "braginskii" -> {"braginskii", "Braginskii"}
      [] name = "epperlein-haines" -> {"epperlein-haines", "Epperlein-Haines"}
      [] name = "parallel" -> {"parallel", "Parallel"}
      [] OTHER -> {name}
Matches(arg, names) == \E k \in names : arg \in IgnoringCase(k)

\* the arguments of the coefficient functions with the long spelling in the
\* place of the short one
LongField(a) ==
    [a EXCEPT !.field_orientation = CASE @ = "par" -> "parallel"
                                      [] @ = "perp" -> "perpendicular"
                                      [] OTHER -> @]
LongModel(a) == [a EXCEPT !.model = IF @ = "spitzer" THEN "spitzer-harm" ELSE @]
ShortField == field_orientation \in {"par", "perp"}
ShortModel == model = "spitzer"

\* C18: names are matched whatever their letter case: a call is rejected for
\* its coefficient names exactly when one of them is, case ignored, none of the
\* six coefficient names, and for its orientation exactly when (coefficients
\* and model being accepted) the orientation is, case ignored, none of
\* parallel, par, perpendicular, perp, cross, all.  A call gets for 'par' what
\* 'parallel' gives, for 'perp' what 'perpendicular' gives and for model
\* 'spitzer' what 'spitzer-harm' gives: every coefficient it has computed under
\* the short spelling is the one its function returns under the long one, and
\* a coefficient function that raised raises the same under the long one.
C18_CaseAndSpellings ==
    /\ pc # "start" =>
          /\ \A i \in 1..Len(coeffs) : coeffs_arg[i] \in IgnoringCase(coeffs[i])
          /\ kwargs.model \in IgnoringCase(model)
          /\ kwargs.field_orientation \in IgnoringCase(field_orientation)
          /\ outcome = "PhysicsError: Unknown transport coefficient"
                <=> \E i \in 1..Len(coeffs_arg) : ~Matches(coeffs_arg[i], KnownCoeffs)
          /\ outcome = "PhysicsError: Unknown field orientation"
                <=> /\ ~Matches(kwargs.field_orientation, KnownFields)
                    /\ outcome \notin {"PhysicsError: Unknown transport coefficient",
                                       "PhysicsError: Unknown transport model"}
    /\ pc = "done" =>
          \A i \in 1..Len(transport_coeffs) :
              /\ ShortField =>
                    transport_funcs(coeffs[i], LongField(args)).val = transport_coeffs[i]
              /\ ShortModel =>
                    transport_funcs(coeffs[i], LongModel(args)).val = transport_coeffs[i]
    /\ (pc = "done" /\ ReachedEval /\ outcome # "return") =>
          LET failed == coeffs[Len(transport_coeffs) + 1]
          IN  /\ ShortField => transport_funcs(failed, LongField(args)).exc = outcome
              /\ ShortModel => transport_funcs(failed, LongModel(args)).exc = outcome

\* 'Resistivity' and the thermoelectric conductivity requested for 'perp' from
\* a magnetized Braginskii plasma, and returned
C18_Witness ==
    /\ pc = "done"
    /\ outcome = "return"
    /\ coeffs_arg = <<"Resistivity", "thermoelectric_conductivity">>
    /\ kwargs.model = "Braginskii"
    /\ kwargs.field_orientation = "perp"
    /\ hall_e = Num(1)
    /\ Len(transport_coeffs) = 2
    /\ transport_coeffs[2] =
          thermoelectric_conductivity(
              [args EXCEPT !.field_orientation = "perpendicular"]).val
    /\ transport_coeffs[2] #
          thermoelectric_conductivity(
              [args EXCEPT !.field_orientation = "parallel"]).val

(***************************************************************************)
(* C19: which evaluators look Z up.                                        *)
(***************************************************************************)
BraginskiiZ == {Num(1), Num(2), Num(3), Num(4), np_inf}
MagnetizedCall == ev_done /\ ev_args.model \in {"braginskii", "ji-held"}
WithZ(z) == Dispatch([ev_args EXCEPT !.Z = z])

ViscosityCall ==
    /\ ev_done
    /\ ev_args.func = "nondim_viscosity"
    /\ ev_args.model \in {"braginskii", "ji-held"}
    /\ ev_args.Z.t = "num"
    /\ ev_res.exc = ""
\* the same call at twice the Hall parameter
AtTwiceHall == Dispatch([ev_args EXCEPT !.hall = 2 * @])
\* component k of the five, counted from 0
Component(res, k) == res.val.v[k + 1]

\* C20 as stated: in every viscosity evaluator (Braginskii and Ji-Held,
\* electron and ion) component 1 at the Hall parameter x is component 2 at 2x,
\* and component 3 at x is component 4 at 2x.
C20_AsStated ==
    ViscosityCall =>
        /\ Component(ev_res, 1) = Component(AtTwiceHall, 2)
        /\ Component(ev_res, 3) = Component(AtTwiceHall, 4)

(***************************************************************************)
(* C21: a viscosity at a Hall parameter inside the guard and not 0.        *)
(***************************************************************************)
\* the call returned one viscosity whose Hall parameter is near zero, not 0
NearZeroViscosity ==
    /\ pc = "done"
    /\ outcome = "return"
    /\ Len(coeffs) = 1
    /\ \/ coeffs[1] = "ion_viscosity" /\ hall_i.t = "near-zero"
       \/ coeffs[1] = "electron_viscosity" /\ hall_e.t = "near-zero"
\* the same function on the same arguments at the Hall parameters 0
AtZeroHall ==
    transport_funcs(coeffs[1], [args EXCEPT !.hall_e = Num(0), !.hall_i = Num(0)])
\* the nondimensional product |Z * hall| or |hall| / sqrt(2) is not 0
HallEnters ==
    ~(coeffs[1] = "electron_viscosity" /\ model = "ji-held" /\ Z = Num(0))

HallOf(coeff) == IF coeff = "ion_viscosity" THEN hall_i ELSE hall_e
ParticleOf(coeff) == IF coeff = "ion_viscosity" THEN ion_particle ELSE e_particle
PrefactorOf(coeff) ==
    IF coeff = "ion_viscosity" THEN "n_i*k_B*T_i*tau_i" ELSE "n_e*k_B*T_e*tau_e"
InsideGuard(hall) == hall.t = "near-zero" \/ hall = Num(0)

\* C22: a returned viscosity, ion or electron, is the five nondimensional
\* components times the prefactor n*k_B*T*tau; outside the near-zero guard
\* components 1 and 2 are divided by hall^2 and components 3 and 4 by hall,
\* component 0 is not divided; inside the guard (the Hall parameter 0
\* included) none is divided.
C22_PerSlotDivision ==
    (pc = "done" /\ outcome = "return") =>
        \A i \in 1..Len(coeffs) :
            coeffs[i] \in Viscosities =>
                LET hall == HallOf(coeffs[i])
                    eta_hat == nondim_viscosity(hall, Z, ParticleOf(coeffs[i]),
                                                model, field_orientation,
                                                mu, theta).val.v
                    got == transport_coeffs[i].hat.v
                    hall2 == I(hall.v * hall.v)
                IN  /\ transport_coeffs[i].pre = PrefactorOf(coeffs[i])
                    /\ transport_coeffs[i].unit = "Pa s"
                    /\ Len(got) = 5
                    /\ got[1] = eta_hat[1]
                    /\ IF InsideGuard(hall) THEN got = eta_hat
                       ELSE /\ got[2] = RDiv(eta_hat[2], hall2)
                            /\ got[3] = RDiv(eta_hat[3], hall2)
                            /\ got[4] = RDiv(eta_hat[4], I(hall.v))
                            /\ got[5] = RDiv(eta_hat[5], I(hall.v))

\* the Braginskii electron viscosity at the Hall parameter 2: components 1
\* and 2 are a quarter, components 3 and 4 a half of the nondimensional ones
C22_Witness ==
    /\ pc = "done"
    /\ outcome = "return"
    /\ coeffs = <<"electron_viscosity">>
    /\ model = "braginskii"
    /\ hall_e = Num(2)
    /\ LET eta_hat == nondim_viscosity(hall_e, Z, e_particle, model,
                                       field_orientation, mu, theta).val.v
           got == transport_coeffs[1].hat.v
       IN  /\ got[2] = RDiv(eta_hat[2], I(4)) /\ got[2] # eta_hat[2]
           /\ got[5] = RDiv(eta_hat[5], I(2)) /\ got[5] # eta_hat[5]

(***************************************************************************)
(* C23: the inner impact parameter of array-valued inputs.                 *)
(***************************************************************************)
\* Coulomb_logarithm returned for an array-valued V
ArrayCall == cl_done /\ cl_args.V.t = "array" /\ cl_res.exc = ""
\* the call with the scalar V.flat[i] in place of the array
ElementCall(i) ==
    Coulomb_logarithm(cl_args.T, cl_args.n_e, cl_args.particles,
                      Num(cl_args.V.v[i]))
\* the call with the elements of V in the opposite order
Reversed(xs) == [i \in 1..Len(xs) |-> xs[Len(xs) + 1 - i]]
ReversedCall ==
    Coulomb_logarithm(cl_args.T, cl_args.n_e, cl_args.particles,
                      ArrayV(Reversed(cl_args.V.v)))
\* b_perp[i] ** 2 and b_deBroglie[i] ** 2 from the formulas of lines 180-190
BPerpSq(i) ==
    LET m == reduced_mass(ion_mass(ClPair[1]), ion_mass(ClPair[2]))
        q == Abs(charge_state(ClPair[1]).v) * Abs(charge_state(ClPair[2]).v)
        b == RDiv(I(q), RMul(m, I(cl_args.V.v[i] * cl_args.V.v[i])))
    IN  RMul(b, b)
BDeBroglieSq(i) ==
    LET m == reduced_mass(ion_mass(ClPair[1]), ion_mass(ClPair[2]))
    IN  RInv(RMul(I(4), RMul(RMul(m, m), I(cl_args.V.v[i] * cl_args.V.v[i]))))

\* C23: for array-valued inputs every element of b_min is the larger of the
\* elements of b_perp and b_deBroglie at its index, b_deBroglie when the two
\* are equal; every element is written exactly once; an element is the b_min
\* of the scalar call on its own inputs, whatever the other elements are, and
\* the array in the opposite order gives the same elements in the opposite
\* order.
C23_ElementwiseMaximum ==
    ArrayCall =>
        /\ Len(cl_res.val.b_min) = Len(cl_args.V.v)
        /\ \A i \in 1..Len(cl_args.V.v) :
              /\ cl_res.val.b_min[i] =
                    IF RLess(BDeBroglieSq(i), BPerpSq(i)) THEN "b_perp"
                    ELSE "b_deBroglie"
              /\ cl_res.val.b_min_sq[i] =
                    IF RLess(BDeBroglieSq(i), BPerpSq(i)) THEN BPerpSq(i)
                    ELSE BDeBroglieSq(i)
              /\ ~RLess(cl_res.val.b_min_sq[i], BPerpSq(i))
              /\ ~RLess(cl_res.val.b_min_sq[i], BDeBroglieSq(i))
              /\ cl_res.val.written[i] = 1
              /\ cl_res.val.b_min[i] = ElementCall(i).val.b_min
              /\ cl_res.val.b_min_sq[i] = ElementCall(i).val.b_min_sq
        /\ ReversedCall.val.b_min = Reversed(cl_res.val.b_min)
        /\ ReversedCall.val.b_min_sq = Reversed(cl_res.val.b_min_sq)

\* an electron and a proton at the relative velocities 1, 2 and 3: b_perp is
\* the larger at the first, the two are equal at the second, b_deBroglie is
\* the larger at the third
C23_Witness ==
    /\ ArrayCall
    /\ ClPair = <<"e", "p">>
    /\ cl_args.V.v = <<1, 2, 3>>
    /\ BPerpSq(2) = BDeBroglieSq(2)
    /\ cl_res.val.b_min = <<"b_perp", "b_deBroglie", "b_deBroglie">>
    /\ cl_res.val.written = <<1, 1, 1>>

(***************************************************************************)
(* C24: the Ji-Held defaults of mu and theta.                              *)
(***************************************************************************)
\* the call has read mu and theta
RatiosRead == pc \in {"eval", "done"} /\ kwargs.mu # Unread
IonCoefficients == {"ion_thermal_conductivity", "ion_viscosity"}

\* C24: under 'ji-held' a mu left out becomes m_e / m_i and a theta left out
\* becomes T_e / T_i, each on its own; a supplied mu or theta, a mu of 0
\* included, is kept, and the Ji-Held ion evaluators compute with these
\* values.  Under every other model no default is computed: mu and theta are
\* forwarded as supplied, None when left out.
C24_JiHeldDefaults ==
    RatiosRead =>
        /\ model = "ji-held" =>
              /\ mu = IF kwargs.mu = NoneV THEN mu_default ELSE kwargs.mu
              /\ theta = IF kwargs.theta = NoneV THEN theta_default
                         ELSE kwargs.theta
              /\ \A i \in 1..Len(transport_coeffs) :
                    coeffs[i] \in IonCoefficients =>
                        /\ transport_coeffs[i].hat.v[1].t.mu = mu
                        /\ transport_coeffs[i].hat.v[1].t.theta = theta
        /\ model # "ji-held" =>
              /\ mu = kwargs.mu
              /\ theta = kwargs.theta
              /\ args.mu = kwargs.mu /\ args.theta = kwargs.theta

\* a Ji-Held ion viscosity returned for a supplied mu of 0 and theta left out
C24_Witness ==
    /\ pc = "done"
    /\ outcome = "return"
    /\ model = "ji-held"
    /\ coeffs = <<"ion_viscosity">>
    /\ kwargs.mu = Num(0)
    /\ kwargs.theta = NoneV
    /\ transport_coeffs[1].hat.v[1].t.mu = Num(0)
    /\ transport_coeffs[1].hat.v[1].t.theta = theta_default

(***************************************************************************)
(* C25: the loop over the requested coefficients.                          *)
(***************************************************************************)
\* the coefficient functions invoked so far, in the order of their calls
Evaluated == SelectSeq(calls, LAMBDA c : c \in KnownCoeffs)
\* the call got to the loop and an evaluator ended it
EvaluatorRaised == pc = "done" /\ outcome \in EvaluatorErrors
\* the first position of `name` in the request
FirstIndexOf(name) ==
    CHOOSE i \in 1..Len(coeffs) :
        coeffs[i] = name /\ \A j \in 1..(i - 1) : coeffs[j] # name

\* C25: the coefficient functions are invoked one by one in the order of the
\* request, each once.  When one raises, its exception ends the call: it is
\* the outcome, nothing is returned, the function is not invoked again and
\* no coefficient after it is evaluated.  A call returns only with every
\* requested coefficient.  The Braginskii electron viscosity of Z = 2 raises
\* the Z domain error whatever else is requested with it.
C25_AllOrNothing ==
    /\ Evaluated = SubSeq(coeffs, 1, Len(transport_coeffs)
                                     + (IF EvaluatorRaised THEN 1 ELSE 0))
    /\ EvaluatorRaised =>
          /\ Len(transport_coeffs) < Len(coeffs)
          /\ outcome = transport_funcs(coeffs[Len(transport_coeffs) + 1], args).exc
    /\ outcome = "return" => Len(transport_coeffs) = Len(coeffs)
    /\ (/\ pc = "done"
        /\ outcome \in EvaluatorErrors \cup {"return"}
        /\ model = "braginskii"
        /\ Z = Num(2)
        /\ "electron_viscosity" \in Range(coeffs)) =>
          /\ outcome = PhysicsErrorZ
          /\ Len(transport_coeffs) = FirstIndexOf("electron_viscosity") - 1

\* the Braginskii electron viscosity of Z = 2 raises: the call ends with the
\* Z domain error and the resistivity requested after it is not evaluated
C25_Witness ==
    /\ EvaluatorRaised
    /\ coeffs = <<"electron_viscosity", "resistivity">>
    /\ model = "braginskii"
    /\ Z = Num(2)
    /\ outcome = PhysicsErrorZ
    /\ transport_coeffs = <<>>
    /\ Evaluated = <<"electron_viscosity">>

(***************************************************************************)
(* C26: which error a call with several invalid inputs ends in.            *)
(***************************************************************************)
\* the stage of classical_transport an outcome comes from, 9 for the return
StageOf(o) ==
    CASE o = "PhysicsError: Unknown transport coefficient" -> 1
      [] o = "PhysicsError: Unknown transport model" -> 2
      [] o = "PhysicsError: Unknown field orientation" -> 3
      [] o = "ValueError: Unable to find mass of particle" -> 4
      [] o \in {"ValueError: Unable to find charge of particle",
                "ValueError: Z not allowed to be negative"} -> 5
      [] o = "PhysicsError: coulomb_log_ei less than 1" -> 6
      [] o = "PhysicsError: coulomb_log_ii less than 1" -> 7
      \* the ValueError of Coulomb_logarithm, computing either logarithm
      [] o = species_error(<<e_particle, ion_particle>>) ->
            IF "Coulomb_logarithm(ion,ion)" \in Range(calls) THEN 7 ELSE 6
      [] o \in EvaluatorErrors -> 8
      [] o = "return" -> 9
BadCoeff == \E i \in 1..Len(coeffs_arg) : Lower(coeffs_arg[i]) \notin KnownCoeffs
BadModel == Lower(kwargs.model) \notin KnownModels
BadField == Lower(kwargs.field_orientation) \notin KnownFields
\* an optional argument the call has read and found below 1
ReadBelowOne(arg, val) == arg # Unread /\ IsNum(val) /\ val.v < 1

\* C26: a call ends in the error of the earliest stage that fails, in the
\* order unknown coefficient, unknown model, unknown orientation, ion mass,
\* charge state or negative Z, coulomb_log_ei below 1, coulomb_log_ii below
\* 1, evaluator: an unknown coefficient name wins over an unknown model and
\* an unknown orientation, an unknown model over an unknown orientation; a
\* call that ends at a stage has passed every stage before it and has read
\* no argument of a stage after it, so that no later input changes the
\* error.  When coulomb_log_ei is below 1 the ion-ion logarithm is never
\* resolved.
C26_StageOrder ==
    pc = "done" =>
        LET stage == StageOf(outcome)
        IN  /\ BadCoeff => stage = 1
            /\ (~BadCoeff /\ BadModel) => stage = 2
            /\ (~BadCoeff /\ ~BadModel /\ BadField) => stage = 3
            /\ stage <= 3 => ion_particle = ""
            /\ stage <= 4 => kwargs.Z = Unread
            /\ stage = 4 => ~ion_mass_known(ion_particle)
            /\ stage >= 5 => ion_mass_known(ion_particle)
            /\ stage <= 5 => kwargs.coulomb_log_ei = Unread
            /\ stage = 5 =>
                  \/ kwargs.Z = NoneV /\ ~charge_state_known(ion_particle)
                  \/ kwargs.Z # NoneV /\ kwargs.Z.v < 0
            /\ stage >= 6 => (Z.t = "num" => Z.v >= 0)
            /\ stage <= 6 =>
                  /\ kwargs.coulomb_log_ii = Unread
                  /\ coulomb_log_ii = NoneV
                  /\ "Coulomb_logarithm(ion,ion)" \notin Range(calls)
            /\ stage >= 7 => IsNum(coulomb_log_ei) /\ coulomb_log_ei.v >= 1
            /\ stage <= 7 =>
                  /\ kwargs.hall_e = Unread /\ kwargs.hall_i = Unread
                  /\ Range(calls) \cap ComputingCalls = {}
            /\ stage >= 8 => IsNum(coulomb_log_ii) /\ coulomb_log_ii.v >= 1
            /\ ReadBelowOne(kwargs.coulomb_log_ei, coulomb_log_ei) =>
                  outcome = "PhysicsError: coulomb_log_ei less than 1"
            /\ ReadBelowOne(kwargs.coulomb_log_ii, coulomb_log_ii) =>
                  outcome = "PhysicsError: coulomb_log_ii less than 1"

\* an unknown coefficient name, an unknown model and an unknown orientation
\* in one call: the call ends with the unknown coefficient
C26_Witness ==
    /\ pc = "done"
    /\ coeffs_arg = <<"conductivity", "ion_viscosity">>
    /\ kwargs.model = "mhd"
    /\ kwargs.field_orientation = "diagonal"
    /\ outcome = "PhysicsError: Unknown transport coefficient"

(***************************************************************************)
(* C27: what is resolved whatever the request names.                       *)
(***************************************************************************)
\* the call has passed the stage of both Coulomb logarithms
LogsPassed == pc \in {"hall", "eval"}
                  \/ (pc = "done" /\ outcome \in EvaluatorErrors \cup {"return"})
\* the call has passed the stage of the Hall parameters
HallPassed == pc = "eval"
                  \/ (pc = "done" /\ outcome \in EvaluatorErrors \cup {"return"})
\* the primitive was called exactly when the argument was left out
ComputedIfLeftOut(arg, primitive) ==
    IF arg = NoneV THEN CalledOnce(primitive) ELSE NeverCalled(primitive)

\* C27: whatever coefficients the request names, none included, a call that
\* gets past the Coulomb logarithms has resolved both, each computed by
\* Coulomb_logarithm exactly when left out, and both are at least 1; a call
\* that gets to the evaluators has resolved both Hall parameters, each
\* computed by Hall_parameter exactly when left out.  A logarithm read below
\* 1 ends the call with its PhysicsError before any coefficient is evaluated,
\* also when the request names no coefficient of its species.
C27_ResolvedForEveryRequest ==
    /\ LogsPassed =>
          /\ IsNum(coulomb_log_ei) /\ coulomb_log_ei.v >= 1
          /\ IsNum(coulomb_log_ii) /\ coulomb_log_ii.v >= 1
          /\ ComputedIfLeftOut(kwargs.coulomb_log_ei, "Coulomb_logarithm(e,ion)")
          /\ ComputedIfLeftOut(kwargs.coulomb_log_ii, "Coulomb_logarithm(ion,ion)")
    /\ HallPassed =>
          /\ IsNum(hall_e) /\ IsNum(hall_i)
          /\ ComputedIfLeftOut(kwargs.hall_e, "Hall_parameter(e,ion)")
          /\ ComputedIfLeftOut(kwargs.hall_i, "Hall_parameter(ion,ion)")
    /\ (kwargs.coulomb_log_ii # Unread /\ IsNum(coulomb_log_ii)
            /\ coulomb_log_ii.v < 1) =>
          /\ pc = "done"
          /\ outcome = "PhysicsError: coulomb_log_ii less than 1"
          /\ transport_coeffs = <<>>
    /\ (kwargs.coulomb_log_ei # Unread /\ IsNum(coulomb_log_ei)
            /\ coulomb_log_ei.v < 1) =>
          /\ pc = "done"
          /\ outcome = "PhysicsError: coulomb_log_ei less than 1"
          /\ transport_coeffs = <<>>
    /\ (pc = "done" /\ coeffs = <<>> /\ outcome = "return") =>
          /\ transport_coeffs = <<>>
          /\ \A k \in 2..5 : IsNum(returned[k])

\* a request for the resistivity alone fails on a supplied ion-ion logarithm
\* of 0
C27_Witness ==
    /\ pc = "done"
    /\ coeffs = <<"resistivity">>
    /\ kwargs.coulomb_log_ii = Num(0)
    /\ outcome = "PhysicsError: coulomb_log_ii less than 1"
    /\ transport_coeffs = <<>>

(***************************************************************************)
(* C28: every orientation that passes validation has its return branch.    *)
(***************************************************************************)
OrientationAware == {"resistivity", "thermoelectric_conductivity",
                     "electron_thermal_conductivity", "ion_thermal_conductivity"}
PassedValidation == pc # "start" /\ outcome \notin UnknownErrors
\* the same coefficient function called directly with the orientation fo
WithOrientation(i, fo) ==
    transport_funcs(coeffs[i], [args EXCEPT !.field_orientation = fo])

\* C28: an orientation that passes the validation of classical_transport is
\* one of parallel, par, perpendicular, perp, cross, all, and no coefficient
\* of a call, whatever the model, is the None of an evaluator that fell off
\* its end: under 'braginskii' and 'ji-held' every coefficient with an
\* orientation is a scalar or, for 'all', a triple.  The same Braginskii or
\* Ji-Held evaluator called with an orientation outside the six returns None
\* and raises nothing.
C28_ValidOrientationsHandled ==
    /\ PassedValidation => field_orientation \in KnownFields
    /\ \A i \in 1..Len(transport_coeffs) :
          /\ transport_coeffs[i].hat.shape # "None"
          /\ (coeffs[i] \in OrientationAware
                  /\ model \in {"braginskii", "ji-held"}) =>
                transport_coeffs[i].hat.shape =
                    IF field_orientation = "all" THEN "array" ELSE "scalar"
    /\ (pc = "done" /\ outcome = "return"
            /\ model \in {"braginskii", "ji-held"}) =>
          \A i \in 1..Len(coeffs) :
              coeffs[i] \in OrientationAware =>
                  /\ WithOrientation(i, "diagonal").exc = ""
                  /\ WithOrientation(i, "diagonal").val.hat = None

\* the Ji-Held ion thermal conductivity under the short spelling 'perp'
C28_Witness ==
    /\ pc = "done"
    /\ outcome = "return"
    /\ model = "ji-held"
    /\ field_orientation = "perp"
    /\ coeffs = <<"ion_thermal_conductivity">>
    /\ transport_coeffs[1].hat.shape = "scalar"
    /\ WithOrientation(1, "diagonal").val.hat = None

(***************************************************************************)
(* C30: the electron coefficients at the Hall parameter 0.                 *)
(***************************************************************************)
(* C29: which placeholder branches classical_transport can reach           *)
(***************************************************************************)
\* the coefficients whose dispatcher names every model of valid_models
FullyDispatched == {"resistivity", "thermoelectric_conductivity",
                    "electron_thermal_conductivity"}
\* what the dispatcher of `name` hands back for this call's arguments under mdl
DispatchedUnder(name, mdl) ==
    CASE name = "resistivity" ->
            nondim_resisitivity(hall_e.v, Z, e_particle, mdl, field_orientation)
      [] name = "thermoelectric_conductivity" ->
            nondim_te_conductivity(hall_e.v, Z, e_particle, mdl, field_orientation)
      [] name = "electron_thermal_conductivity" ->
            nondim_thermal_conductivity(hall_e.v, Z, e_particle, mdl,
                                        field_orientation, mu, theta)
\* the dispatcher took its last branch
IsPlaceholder(d) == d.exc = "" /\ d.val = Placeholder

\* C29: a call that reaches the loop has a model of valid_models, and under it
\* the dispatchers of resistivity, thermoelectric conductivity and electron
\* thermal conductivity never hand back the placeholder 1, which the same
\* dispatchers do hand back for a model name outside the list; the placeholder
\* is met only as the value of ion thermal conductivity, or as the TypeError of
\* a viscosity, and both only under 'spitzer' or 'spitzer-harm'.
C29_PlaceholderReach ==
    ReachedEval =>
        /\ model \in KnownModels
        /\ \A i \in 1..Len(coeffs) :
              coeffs[i] \in FullyDispatched =>
                  /\ ~IsPlaceholder(DispatchedUnder(coeffs[i], model))
                  /\ IsPlaceholder(DispatchedUnder(coeffs[i], "epperlein-haines"))
        /\ \A i \in 1..Len(transport_coeffs) :
              transport_coeffs[i].hat = Placeholder =>
                  /\ coeffs[i] = "ion_thermal_conductivity"
                  /\ model \in SpitzerNames
        /\ outcome = TypeErrorInt =>
              /\ coeffs[Len(transport_coeffs) + 1] \in Viscosities
              /\ model \in SpitzerNames

\* under 'spitzer' resistivity came back from its fit and ion thermal
\* conductivity on the placeholder
C29_Witness ==
    /\ pc = "done" /\ outcome = "return"
    /\ model = "spitzer"
    /\ coeffs = <<"resistivity", "ion_thermal_conductivity">>
    /\ transport_coeffs[1].hat # Placeholder
    /\ transport_coeffs[2].hat = Placeholder

(***************************************************************************)
\* a Braginskii or Ji-Held electron resistivity, thermoelectric conductivity
\* or thermal conductivity returned all three components at Hall parameter 0
ZeroFieldCall ==
    /\ ev_done
    /\ HasOrientation
    /\ ElectronCall
    /\ ev_args.model \in {"braginskii", "ji-held"}
    /\ ev_args.hall = 0
    /\ ev_args.field_orientation = "all"
    /\ ev_res.exc = ""
\* the constants of the Ji-Held fit are rationals of the model: always for
\* the thermal conductivity, for Z in the table or a perfect cube otherwise
FitIsRational ==
    \/ ev_args.model = "braginskii"
    \/ /\ ev_args.Z.t = "num"
       /\ \/ ev_args.func = "nondim_thermal_conductivity"
          \/ ev_args.Z \in {Num(1), Num(2)}
          \/ IsCube(ev_args.Z.v)
JiHeldAtInfinity == ev_args.model = "ji-held" /\ ev_args.Z = np_inf

====
